---- MODULE Spec2Model ----
(***************************************************************************)
(* Model of the Agent-Quickstart wizard: the four-stage wizard state       *)
(* machine with its browser-history integration, and the workflow run      *)
(* that creates issues and assigns the bot.                                *)
(*                                                                         *)
(* Strings the program inspects character by character (organization      *)
(* name, token, prompt text, repository names) are sequences of            *)
(* one-character strings.                                                  *)
(***************************************************************************)
EXTENDS Integers, Sequences, FiniteSets, TLC

\* ------------------------------------------------------------------------
\* Bounds of the model
\* ------------------------------------------------------------------------
MaxHistory == 3
MaxTimers == 2
MaxPromptLoads == 2
MaxPendingHash == 1
MaxTargets == 3
MaxPages == 2
MaxEvents == 7
MaxCatalogEvents == 3
MaxSearches == 2
MaxApiCalls == 2
MaxNameLength == 3
MaxChain == 2
MaxNodes == 2
MaxRuns == 2

\* ------------------------------------------------------------------------
\* Program constants
\* ------------------------------------------------------------------------
TokenMinLength == 20

\* APP_CONFIG.PAGINATION
DefaultPageSize == 50

MaxItems == 5000

\* perPage of loadAllRepositories
PerPage == 100

\* filterRepos: fewer local matches than this ask for the remote search
RemoteSearchBelow == 10

\* filterRepos: the shortest search term the remote search is asked for
RemoteSearchMinLength == 2

Null == "null"

\* the state of a history entry that carries none
NoState == [step |-> 0]

UseCases == {"tests", "documentation", "technical-debt"}

SelectionMethods == {"all", "selected", "properties"}

\* the use-case buttons the model clicks
ClickedUseCases == {"tests", "documentation"}

\* ------------------------------------------------------------------------
\* ValidationUtils
\* ------------------------------------------------------------------------
Lower == {"a","b","c","d","e","f","g","h","i","j","k","l","m",
          "n","o","p","q","r","s","t","u","v","w","x","y","z"}

Upper == {"A","B","C","D","E","F","G","H","I","J","K","L","M",
          "N","O","P","Q","R","S","T","U","V","W","X","Y","Z"}

Digit == {"0","1","2","3","4","5","6","7","8","9"}

AlphaNum == Lower \cup Upper \cup Digit

Whitespace == {" ", "\t", "\n", "\r"}

StrippedChars == {"<", ">", "'", "\"", "&"}

IsStrippedChar(c) == c \in StrippedChars

\* input.replace(/[<>'"&]/g, '')
sanitizeString(input) == SelectSeq(input, LAMBDA c : ~IsStrippedChar(c))

RECURSIVE trimStart(_)
trimStart(s) ==
    IF s = <<>> THEN <<>>
    ELSE IF Head(s) \in Whitespace THEN trimStart(Tail(s))
    ELSE s

RECURSIVE trimEnd(_)
trimEnd(s) ==
    IF s = <<>> THEN <<>>
    ELSE IF s[Len(s)] \in Whitespace THEN trimEnd(SubSeq(s, 1, Len(s) - 1))
    ELSE s

\* String.prototype.trim
trim(s) == trimEnd(trimStart(s))

\* /^[a-zA-Z0-9][a-zA-Z0-9-]*[a-zA-Z0-9]$|^[a-zA-Z0-9]$/
MatchesOrgPattern(s) ==
    \/ /\ Len(s) >= 2
       /\ s[1] \in AlphaNum
       /\ s[Len(s)] \in AlphaNum
       /\ \A i \in 2..(Len(s) - 1) : s[i] \in AlphaNum \cup {"-"}
    \/ /\ Len(s) = 1
       /\ s[1] \in AlphaNum

\* /^[a-zA-Z0-9_]{20,}$/
MatchesTokenPattern(s) ==
    /\ Len(s) >= TokenMinLength
    /\ \A i \in 1..Len(s) : s[i] \in AlphaNum \cup {"_"}

\* isValidOrgName sanitizing before it trims
isValidOrgNameSanitizingFirst(orgName) ==
    IF orgName = <<>> THEN FALSE
    ELSE MatchesOrgPattern(trim(sanitizeString(orgName)))

isValidOrgName(orgName) ==
    IF orgName = <<>> THEN FALSE
    ELSE MatchesOrgPattern(sanitizeString(trim(orgName)))

isValidToken(token) ==
    IF token = <<>> THEN FALSE
    ELSE MatchesTokenPattern(trim(token))

\* ------------------------------------------------------------------------
\* Inputs the user and the environment can supply
\* ------------------------------------------------------------------------
\* a token-shaped string of n characters
TokenOfLength(n) == [i \in 1..n |-> IF i = 4 THEN "_" ELSE "g"]

\* empty, valid, invalid, and one that is valid once "<" is removed
OrgInputs == { <<>>, <<"a", "-", "b">>, <<"-", "a">>, <<"<", " ", "a">> }

TokenInputs == { <<>>, TokenOfLength(TokenMinLength), TokenOfLength(TokenMinLength - 1) }

RepoName(k) == <<"r", CHOOSE d \in Digit : d = ToString(k)>>

PropertyNames == {"environment"}

\* the URL fragment: 0 is "no #step-N in the fragment", n is "#step-n"
Fragments == 0..4

\* the fragments the user types into the address bar once the page is loaded
UserFragments == {1, 3}

\* ------------------------------------------------------------------------
\* State
\* ------------------------------------------------------------------------
VARIABLES
    appState,            \* the AppState instance
    dom,                 \* values of the form controls
    history,             \* the session history: entries [state, hash]
    historyIndex,        \* position of the current entry in history
    initialized,         \* DOMContentLoaded has been handled
    autoAdvanceTimers,   \* pending setTimeout(goToStep(2)) callbacks
    promptLoads,         \* loadPromptForUseCase calls awaiting their fetch
    pendingHashChange,   \* hashchange events queued and not yet handled
    shown,               \* notifications and alerts of the last handler
    lastEvent,           \* the last event handled and the stage it asked for
    lastEntry,           \* the last goToStep and canNavigateToStep at it
    events,              \* number of events handled so far
    run,                 \* the executeWorkflow invocation
    firstEntry,          \* what the session held when each stage was first
                         \* entered, while the wizard goes 1 -> 2 -> 3
    catalog              \* the catalog fields of appState, the tables that
                         \* show them, and the loads and searches in flight

\* new AppState()
NewAppState ==
    [ currentStep |-> 1,
      selectedUseCase |-> Null,
      orgName |-> <<>>,
      authToken |-> <<>>,
      selectionMethod |-> "all",
      selectedRepos |-> <<>>,
      selectedProperties |-> <<>>,
      promptContent |-> <<>> ]

\* the form controls of the static document before any input
NewDom ==
    [ orgNameInput |-> <<>>,
      authTokenInput |-> <<>>,
      selectionDropdown |-> "all",
      promptContentTextarea |-> <<>> ]

\* the state a handler works on; shown collects what the handler displays,
\* fits turns FALSE when the handler would exceed a bound of the model
World ==
    [ app |-> appState, dom |-> dom, hist |-> history, idx |-> historyIndex,
      timers |-> autoAdvanceTimers, loads |-> promptLoads,
      hc |-> pendingHashChange, shown |-> <<>>, entry |-> lastEntry,
      first |-> firstEntry, fits |-> TRUE ]

Commit(w) ==
    /\ w.fits
    /\ appState' = w.app
    /\ dom' = w.dom
    /\ history' = w.hist
    /\ historyIndex' = w.idx
    /\ autoAdvanceTimers' = w.timers
    /\ promptLoads' = w.loads
    /\ pendingHashChange' = w.hc
    /\ shown' = w.shown
    /\ lastEntry' = w.entry
    /\ firstEntry' = w.first
    /\ events < MaxEvents
    /\ events' = events + 1
    /\ UNCHANGED <<run, catalog>>

showNotification(w, message, type) ==
    [w EXCEPT !.shown = Append(@, [kind |-> "notification", type |-> type, message |-> message])]

alert(w, message) ==
    [w EXCEPT !.shown = Append(@, [kind |-> "alert", type |-> "alert", message |-> message])]

\* ------------------------------------------------------------------------
\* Browser history
\* ------------------------------------------------------------------------
Fragment(w) == w.hist[w.idx].hash

\* a new entry after the current one; the entries ahead are dropped
PushEntry(w, e) ==
    IF w.idx + 1 > MaxHistory THEN [w EXCEPT !.fits = FALSE]
    ELSE [w EXCEPT !.hist = Append(SubSeq(w.hist, 1, w.idx), e), !.idx = w.idx + 1]

ReplaceEntry(w, e) == [w EXCEPT !.hist[w.idx] = e]

\* window.location.hash = `step-${h}`: a fragment navigation, which adds an
\* entry without state and queues a hashchange event when the fragment differs
SetLocationHash(w, h) ==
    IF h = Fragment(w) THEN w
    ELSE LET w1 == PushEntry(w, [state |-> NoState, hash |-> h])
         IN IF w1.hc + 1 > MaxPendingHash THEN [w1 EXCEPT !.fits = FALSE]
            ELSE [w1 EXCEPT !.hc = @ + 1]

getStepFromHash(hash) == IF hash >= 1 /\ hash <= 4 THEN hash ELSE 1

\* updateHistoryState without the test of isNavigatingFromHistory
updateHistoryStateAlways(w, step, isNavigatingFromHistory) ==
    LET state == [step |-> step, appState |-> w.app]
    IN IF step = 1 THEN ReplaceEntry(w, [state |-> state, hash |-> step])
       ELSE PushEntry(w, [state |-> state, hash |-> step])

updateHistoryState(w, step, isNavigatingFromHistory) ==
    IF isNavigatingFromHistory THEN w
    ELSE LET state == [step |-> step, appState |-> w.app]
         IN IF step = 1 THEN ReplaceEntry(w, [state |-> state, hash |-> step])
            ELSE PushEntry(w, [state |-> state, hash |-> step])

\* ------------------------------------------------------------------------
\* Stage gating
\* ------------------------------------------------------------------------
hasValidSelection(app) ==
    \/ app.selectionMethod = "all"
    \/ (app.selectionMethod = "selected" /\ Len(app.selectedRepos) > 0)
    \/ (app.selectionMethod = "properties" /\ Len(app.selectedProperties) > 0)

canNavigateToStep(app, targetStep) ==
    CASE targetStep = 1 -> TRUE
      [] targetStep = 2 -> app.selectedUseCase # Null
      [] targetStep = 3 -> /\ app.selectedUseCase # Null
                           /\ app.orgName # <<>>
                           /\ app.authToken # <<>>
      [] targetStep = 4 -> /\ app.selectedUseCase # Null
                           /\ app.orgName # <<>>
                           /\ app.authToken # <<>>
                           /\ hasValidSelection(app)
      [] OTHER -> FALSE

StepAccessMessage(targetStep) ==
    CASE targetStep = 2 -> "Please select a use case first."
      [] targetStep = 3 -> "Please complete authentication setup first."
      [] targetStep = 4 -> "Please complete repository selection first."
      [] OTHER -> ""

\* the notification validateStepAccess shows; its return value is
\* canNavigateToStep(w.app, targetStep)
validateStepAccess(w, targetStep) ==
    IF canNavigateToStep(w.app, targetStep) THEN w
    ELSE showNotification(w, StepAccessMessage(targetStep), "warning")

\* validateInputs without its validity checks: whatever is typed is stored
validateInputsUnchecked(w) ==
    [w EXCEPT !.app.orgName = sanitizeString(trim(w.dom.orgNameInput)),
              !.app.authToken = trim(w.dom.authTokenInput)]

validateInputs(w) ==
    LET orgNameRaw == trim(w.dom.orgNameInput)
        authTokenRaw == trim(w.dom.authTokenInput)
        orgName == sanitizeString(orgNameRaw)
        authToken == authTokenRaw
        isValidOrg == isValidOrgName(orgName)
        isValidTok == isValidToken(authToken)
    IN [w EXCEPT !.app.orgName = IF isValidOrg THEN orgName ELSE <<>>,
                 !.app.authToken = IF isValidTok THEN authToken ELSE <<>>]

\* the fetch a loadPromptForUseCase call starts; the URL is fixed at the call
loadPromptForUseCase(w) ==
    IF Len(w.loads) + 1 > MaxPromptLoads THEN [w EXCEPT !.fits = FALSE]
    ELSE [w EXCEPT !.loads = Append(@, w.app.selectedUseCase)]

handleSelectionMethodChange(w) ==
    [w EXCEPT !.app.selectionMethod = w.dom.selectionDropdown]

restoreStepState(w, step) ==
    CASE step = 2 ->
            validateInputs([w EXCEPT !.dom.orgNameInput = w.app.orgName,
                                     !.dom.authTokenInput = w.app.authToken])
      [] step = 3 ->
            handleSelectionMethodChange(
                [w EXCEPT !.dom.selectionDropdown = w.app.selectionMethod])
      [] step = 4 ->
            IF w.app.selectedUseCase # Null
            THEN IF w.app.promptContent # <<>>
                 THEN [w EXCEPT !.dom.promptContentTextarea = w.app.promptContent]
                 ELSE loadPromptForUseCase(w)
            ELSE w
      [] OTHER -> w

\* the organization, token and selection fields of the session
SessionFields(app) ==
    [ orgName |-> app.orgName,
      authToken |-> app.authToken,
      selectionMethod |-> app.selectionMethod,
      selectedRepos |-> app.selectedRepos,
      selectedProperties |-> app.selectedProperties ]

\* no stage has been entered
NoEntries == [walk |-> <<>>, strayed |-> FALSE]

\* the wizard has entered a stage out of the order 1, 2, 3
Strayed == [walk |-> <<>>, strayed |-> TRUE]

\* a stage becomes the active one by a transition of the wizard; a
\* navigation that comes from the history is no new entry
enterStage(w, step, isNavigatingFromHistory) ==
    IF isNavigatingFromHistory \/ w.first.strayed THEN w
    ELSE IF step = Len(w.first.walk) + 1 /\ step <= 3
         THEN [w EXCEPT !.first.walk = Append(@, SessionFields(w.app))]
         ELSE [w EXCEPT !.first = Strayed]

goToStep(w, step, isNavigatingFromHistory) ==
    LET w0 == enterStage(w, step, isNavigatingFromHistory)
        w1 == [w0 EXCEPT !.entry = [step |-> step, allowed |-> canNavigateToStep(w.app, step)],
                         !.app.currentStep = step]
        w2 == updateHistoryState(w1, step, isNavigatingFromHistory)
    IN restoreStepState(w2, step)

\* ------------------------------------------------------------------------
\* Prompt documents
\* ------------------------------------------------------------------------
UseCaseLetter(useCase) ==
    CASE useCase = "tests" -> "t"
      [] useCase = "documentation" -> "d"
      [] useCase = "technical-debt" -> "r"
      [] OTHER -> "u"

\* the text of the external prompt document of a use case
PromptDocument(useCase) == <<"D", UseCaseLetter(useCase)>>

\* getFallbackPrompt: one fixed text per use case, and a generic one
getFallbackPrompt(useCase) ==
    IF useCase \in UseCases THEN <<"F", UseCaseLetter(useCase)>> ELSE <<"F">>

\* ------------------------------------------------------------------------
\* Selection model
\* ------------------------------------------------------------------------
WizardRepos == {RepoName(1)}

IndexOf(seq, x) ==
    IF \E i \in 1..Len(seq) : seq[i] = x
    THEN CHOOSE i \in 1..Len(seq) : seq[i] = x /\ \A j \in 1..(i - 1) : seq[j] # x
    ELSE 0

RemoveAt(seq, i) == SubSeq(seq, 1, i - 1) \o SubSeq(seq, i + 1, Len(seq))

PropertyIndex(seq, propertyName) ==
    IF \E i \in 1..Len(seq) : seq[i].propertyName = propertyName
    THEN CHOOSE i \in 1..Len(seq) :
            /\ seq[i].propertyName = propertyName
            /\ \A j \in 1..(i - 1) : seq[j].propertyName # propertyName
    ELSE 0

toggleRepoSelection(w, repoName) ==
    LET index == IndexOf(w.app.selectedRepos, repoName)
    IN IF index = 0
       THEN [w EXCEPT !.app.selectedRepos = Append(@, repoName)]
       ELSE [w EXCEPT !.app.selectedRepos = RemoveAt(@, index)]

removeRepoSelection(w, repoName) ==
    LET index == IndexOf(w.app.selectedRepos, repoName)
    IN IF index # 0
       THEN [w EXCEPT !.app.selectedRepos = RemoveAt(@, index)]
       ELSE w

togglePropertySelection(w, propertyName) ==
    LET existingIndex == PropertyIndex(w.app.selectedProperties, propertyName)
    IN IF existingIndex = 0
       THEN [w EXCEPT !.app.selectedProperties =
                Append(@, [propertyName |-> propertyName, value |-> <<>>])]
       ELSE [w EXCEPT !.app.selectedProperties = RemoveAt(@, existingIndex)]

removePropertySelection(w, propertyName) ==
    LET index == PropertyIndex(w.app.selectedProperties, propertyName)
    IN IF index # 0
       THEN [w EXCEPT !.app.selectedProperties = RemoveAt(@, index)]
       ELSE w

\* ------------------------------------------------------------------------
\* Event handlers of the wizard
\* ------------------------------------------------------------------------
Event(kind, target, allowed) == [kind |-> kind, target |-> target, allowed |-> allowed]

\* DOMContentLoaded: initializeApp, then the listener that applies the
\* selection dropdown
InitializeApp ==
    /\ ~initialized
    /\ LET initialStep == getStepFromHash(Fragment(World))
           w1 == IF initialStep > 1
                 THEN goToStep(World, initialStep, FALSE)
                 ELSE updateHistoryState(enterStage(World, 1, FALSE), 1, FALSE)
       IN /\ Commit(handleSelectionMethodChange(w1))
          /\ lastEvent' = Event("load", initialStep, canNavigateToStep(appState, initialStep))
    /\ initialized' = TRUE

\* selectUseCase scheduling the advance whatever the session holds
selectUseCaseAlwaysAdvancing(w, useCase, isNavigatingFromHistory) ==
    LET w1 == [w EXCEPT !.app.selectedUseCase = useCase]
    IN IF w1.timers + 1 > MaxTimers THEN [w1 EXCEPT !.fits = FALSE]
       ELSE [w1 EXCEPT !.timers = @ + 1]

selectUseCase(w, useCase, isNavigatingFromHistory) ==
    LET w1 == [w EXCEPT !.app.selectedUseCase = useCase]
    IN IF /\ w1.app.currentStep = 1
          /\ w1.app.orgName = <<>> /\ w1.app.authToken = <<>>
          /\ ~isNavigatingFromHistory
       THEN IF w1.timers + 1 > MaxTimers THEN [w1 EXCEPT !.fits = FALSE]
            ELSE [w1 EXCEPT !.timers = @ + 1]
       ELSE w1

\* a click on a use-case button, shown on stage 1
SelectUseCase(useCase) ==
    /\ initialized
    /\ appState.currentStep = 1
    /\ Commit(selectUseCase(World, useCase, FALSE))
    /\ lastEvent' = Event("selectUseCase", 0, TRUE)
    /\ UNCHANGED initialized

\* the setTimeout callback of selectUseCase
AutoAdvance ==
    /\ autoAdvanceTimers > 0
    /\ Commit(goToStep([World EXCEPT !.timers = @ - 1], 2, FALSE))
    /\ lastEvent' = Event("autoAdvance", 2, canNavigateToStep(appState, 2))
    /\ UNCHANGED initialized

\* input events of the two fields of stage 2
InputOrgName(value) ==
    /\ initialized
    /\ appState.currentStep = 2
    /\ Commit(validateInputs([World EXCEPT !.dom.orgNameInput = value]))
    /\ lastEvent' = Event("validateInputs", 0, TRUE)
    /\ UNCHANGED initialized

InputAuthToken(value) ==
    /\ initialized
    /\ appState.currentStep = 2
    /\ Commit(validateInputs([World EXCEPT !.dom.authTokenInput = value]))
    /\ lastEvent' = Event("validateInputs", 0, TRUE)
    /\ UNCHANGED initialized

handleAuthNext(w) ==
    IF ~isValidOrgName(w.app.orgName) \/ ~isValidToken(w.app.authToken)
    THEN showNotification(w, "Please provide valid organization name and authentication token.", "error")
    ELSE goToStep(w, 3, FALSE)

HandleAuthNext ==
    /\ initialized
    /\ appState.currentStep = 2
    /\ Commit(handleAuthNext(World))
    /\ lastEvent' = Event("authNext", 3, canNavigateToStep(appState, 3))
    /\ UNCHANGED initialized

\* the back buttons of stages 2, 3 and 4: goToStep(1), goToStep(2), goToStep(3)
BackButton(fromStep) ==
    /\ initialized
    /\ appState.currentStep = fromStep
    /\ Commit(goToStep(World, fromStep - 1, FALSE))
    /\ lastEvent' = Event("backButton", fromStep - 1, canNavigateToStep(appState, fromStep - 1))
    /\ UNCHANGED initialized

\* a change of the selection dropdown of stage 3
SelectionMethodChange(method) ==
    /\ initialized
    /\ appState.currentStep = 3
    /\ Commit(handleSelectionMethodChange([World EXCEPT !.dom.selectionDropdown = method]))
    /\ lastEvent' = Event("selectionMethod", 0, TRUE)
    /\ UNCHANGED initialized

ToggleRepoSelection(repoName) ==
    /\ initialized
    /\ appState.currentStep = 3 /\ appState.selectionMethod = "selected"
    /\ Commit(toggleRepoSelection(World, repoName))
    /\ lastEvent' = Event("toggleRepo", 0, TRUE)
    /\ UNCHANGED initialized

RemoveRepoSelection(repoName) ==
    /\ initialized
    /\ appState.currentStep = 3 /\ appState.selectionMethod = "selected"
    /\ IndexOf(appState.selectedRepos, repoName) # 0
    /\ Commit(removeRepoSelection(World, repoName))
    /\ lastEvent' = Event("removeRepo", 0, TRUE)
    /\ UNCHANGED initialized

TogglePropertySelection(propertyName) ==
    /\ initialized
    /\ appState.currentStep = 3 /\ appState.selectionMethod = "properties"
    /\ Commit(togglePropertySelection(World, propertyName))
    /\ lastEvent' = Event("toggleProperty", 0, TRUE)
    /\ UNCHANGED initialized

RemovePropertySelection(propertyName) ==
    /\ initialized
    /\ appState.currentStep = 3 /\ appState.selectionMethod = "properties"
    /\ PropertyIndex(appState.selectedProperties, propertyName) # 0
    /\ Commit(removePropertySelection(World, propertyName))
    /\ lastEvent' = Event("removeProperty", 0, TRUE)
    /\ UNCHANGED initialized

handleReposNext(w) ==
    IF w.app.selectionMethod = "selected" /\ Len(w.app.selectedRepos) = 0
    THEN alert(w, "Please select at least one repository.")
    ELSE IF w.app.selectionMethod = "properties" /\ Len(w.app.selectedProperties) = 0
    THEN alert(w, "Please select at least one custom property.")
    ELSE goToStep(loadPromptForUseCase(w), 4, FALSE)

HandleReposNext ==
    /\ initialized
    /\ appState.currentStep = 3
    /\ Commit(handleReposNext(World))
    /\ lastEvent' = Event("reposNext", 4, canNavigateToStep(appState, 4))
    /\ UNCHANGED initialized

\* the fetch of a loadPromptForUseCase call completes or fails
PromptLoaded(k, ok) ==
    /\ k \in 1..Len(promptLoads)
    /\ LET w == [World EXCEPT !.loads = RemoveAt(@, k)]
           text == IF ok THEN PromptDocument(promptLoads[k])
                   ELSE getFallbackPrompt(appState.selectedUseCase)
       IN Commit([w EXCEPT !.app.promptContent = text,
                           !.dom.promptContentTextarea = text])
    /\ lastEvent' = Event("promptLoaded", 0, TRUE)
    /\ UNCHANGED initialized

\* ------------------------------------------------------------------------
\* Navigation requests: step indicator, keyboard, fragment, history
\* ------------------------------------------------------------------------
\* handleStepClick ignoring the answer of validateStepAccess
handleStepClickUnchecked(w, targetStep) ==
    goToStep(validateStepAccess(w, targetStep), targetStep, FALSE)

handleStepClick(w, targetStep) ==
    LET w1 == validateStepAccess(w, targetStep)
    IN IF canNavigateToStep(w.app, targetStep) THEN goToStep(w1, targetStep, FALSE) ELSE w1

HandleStepClick(targetStep) ==
    /\ initialized
    /\ Commit(handleStepClick(World, targetStep))
    /\ lastEvent' = Event("stepClick", targetStep, canNavigateToStep(appState, targetStep))
    /\ UNCHANGED initialized

navigateToPreviousStep(w) ==
    IF w.app.currentStep > 1
    THEN LET previousStep == w.app.currentStep - 1
             w1 == validateStepAccess(w, previousStep)
         IN IF canNavigateToStep(w.app, previousStep) THEN goToStep(w1, previousStep, FALSE) ELSE w1
    ELSE w

navigateToNextStep(w) ==
    IF w.app.currentStep < 4
    THEN LET nextStep == w.app.currentStep + 1
             w1 == validateStepAccess(w, nextStep)
         IN IF canNavigateToStep(w.app, nextStep) THEN goToStep(w1, nextStep, FALSE)
            ELSE showNotification(w1, "Please complete the current step before proceeding.", "warning")
    ELSE w

\* Alt+ArrowLeft outside the form fields
KeyboardPrevious ==
    /\ initialized
    /\ appState.currentStep > 1
    /\ Commit(navigateToPreviousStep(World))
    /\ lastEvent' = Event("keyPrevious", appState.currentStep - 1,
                          canNavigateToStep(appState, appState.currentStep - 1))
    /\ UNCHANGED initialized

\* Alt+ArrowRight outside the form fields
KeyboardNext ==
    /\ initialized
    /\ appState.currentStep < 4
    /\ Commit(navigateToNextStep(World))
    /\ lastEvent' = Event("keyNext", appState.currentStep + 1,
                          canNavigateToStep(appState, appState.currentStep + 1))
    /\ UNCHANGED initialized

\* the user changes the fragment of the URL: a fragment navigation
UserHashChange(hash) ==
    /\ initialized
    /\ hash # Fragment(World)
    /\ Commit(SetLocationHash(World, hash))
    /\ lastEvent' = Event("userHash", 0, TRUE)
    /\ UNCHANGED initialized

\* isNavigatingFromHistory is false whenever a handler starts: the handlers
\* that set it reset it before they return
handleHashChange(w) ==
    LET step == getStepFromHash(Fragment(w))
        w1 == validateStepAccess(w, step)
    IN IF canNavigateToStep(w.app, step) THEN goToStep(w1, step, TRUE)
       ELSE SetLocationHash(w1, w1.app.currentStep)

\* a queued hashchange event is dispatched
HandleHashChange ==
    /\ initialized
    /\ pendingHashChange > 0
    /\ Commit(handleHashChange([World EXCEPT !.hc = @ - 1]))
    /\ lastEvent' = Event("hashChange", getStepFromHash(Fragment(World)),
                          canNavigateToStep(appState, getStepFromHash(Fragment(World))))
    /\ UNCHANGED initialized

\* a popstate listener that keeps the session as it is
handlePopStateWithoutRestore(w, state) ==
    IF state.step # 0
    THEN goToStep(w, state.step, TRUE)
    ELSE w

handlePopState(w, state) ==
    IF state.step # 0
    THEN goToStep([w EXCEPT !.app = state.appState], state.step, TRUE)
    ELSE w

\* the user goes back or forward by delta entries: the popstate event is
\* dispatched, and a hashchange event is queued when the fragment differs
HistoryGo(delta) ==
    /\ initialized
    /\ delta # 0
    /\ historyIndex + delta \in 1..Len(history)
    /\ LET target == history[historyIndex + delta]
           differs == target.hash # Fragment(World)
           w == [World EXCEPT !.idx = historyIndex + delta,
                              !.hc = IF differs THEN @ + 1 ELSE @,
                              !.fits = ~differs \/ pendingHashChange + 1 <= MaxPendingHash]
       IN /\ Commit(handlePopState(w, target.state))
          /\ lastEvent' =
                IF target.state.step # 0
                THEN Event("popState", target.state.step,
                           canNavigateToStep(target.state.appState, target.state.step))
                ELSE Event("popStateIgnored", 0, TRUE)
    /\ UNCHANGED initialized

\* ------------------------------------------------------------------------
\* The wizard
\* ------------------------------------------------------------------------
vars == <<appState, dom, history, historyIndex, initialized,
          autoAdvanceTimers, promptLoads, pendingHashChange,
          shown, lastEvent, lastEntry, events, run, firstEntry, catalog>>

\* the issue of a target whose issue has not been created
NoIssue == [number |-> 0, repo |-> <<>>]

\* no executeWorkflow invocation yet
NoRun ==
    [ pc |-> "idle",           \* the await executeWorkflow is suspended at
      targetRepos |-> <<>>,    \* names of the resolved targets
      i |-> 0,                 \* position of the target in process
      page |-> 0,              \* suggested-actors pages requested for it
      issue |-> NoIssue,       \* the issue created for it
      issues |-> 0,            \* issues created in this run
      results |-> <<>>,
      successCount |-> 0,
      failureCount |-> 0,
      delays |-> 0,            \* rate-limit delays waited
      listingStatus |-> 0,     \* status of a failed repository listing
      api |-> <<>>,            \* calls of githubAPI and githubGraphQL made
                               \* on their own, and how each ended
      search |-> [pc |-> "idle", chain |-> <<>>, asked |-> <<>>,
                  result |-> [id |-> 0, login |-> "null"]],
                               \* a findCopilotBot call followed page by page
      assign |-> [pc |-> "idle", issueNodeId |-> 0, mutations |-> <<>>,
                  failed |-> "none"],
                               \* an assignCopilotToIssue call followed
                               \* request by request
      earlier |-> <<>>,        \* invocations started before this one
                               \* while no invocation had ended
      outcome |-> "none",      \* "success", "failure" or "error"
      calls |-> <<>>,          \* createIssueAndAssignCopilot invocations
      netLog |-> <<>>,         \* requests sent, in order
      pending |-> 0,           \* requests sent and not yet answered
      assignment |-> <<>> ]    \* per result: the issue the server created
                               \* and how the bot assignment ended

\* the pagination state of one table, as the AppState constructor builds it
NewPagination ==
    [ currentPage |-> 1,
      itemsPerPage |-> DefaultPageSize,
      totalPages |-> 1,
      filtered |-> <<>>,       \* filteredRepos, filteredProperties
      searchTerm |-> <<>> ]

\* nothing loaded, nothing in flight
NewCatalog ==
    [ allRepos |-> <<>>,
      allProperties |-> <<>>,
      reposPagination |-> NewPagination,
      propertiesPagination |-> NewPagination,
      reposTbody |-> <<>>,          \* rows of the repository table
      propertiesTbody |-> <<>>,     \* rows of the property table
      cache |-> {},                 \* PerformanceUtils.cache: [key, data, fresh]
      orgSize |-> 0,                \* repositories the organization has
      load |-> [pc |-> "idle", page |-> 0, allRepos |-> <<>>, asked |-> <<>>],
      propertiesLoad |-> "idle",
      searches |-> <<>>,            \* filterRepos calls awaiting the search
      alerts |-> 0,                 \* alerts shown
      last |-> [op |-> "none"] ]    \* the operation that acted last

\* the page has loaded with some fragment; no listener has run yet
Init ==
    /\ appState = NewAppState
    /\ dom = NewDom
    /\ history \in { <<[state |-> NoState, hash |-> h]>> : h \in Fragments }
    /\ historyIndex = 1
    /\ initialized = FALSE
    /\ autoAdvanceTimers = 0
    /\ promptLoads = <<>>
    /\ pendingHashChange = 0
    /\ shown = <<>>
    /\ lastEvent = Event("none", 0, TRUE)
    /\ lastEntry = [step |-> 1, allowed |-> TRUE]
    /\ events = 0
    /\ run = NoRun
    /\ firstEntry = NoEntries
    /\ catalog = NewCatalog

Next ==
    \/ InitializeApp
    \/ \E useCase \in ClickedUseCases : SelectUseCase(useCase)
    \/ AutoAdvance
    \/ \E value \in OrgInputs : InputOrgName(value)
    \/ \E value \in TokenInputs : InputAuthToken(value)
    \/ HandleAuthNext
    \/ \E fromStep \in 2..4 : BackButton(fromStep)
    \/ \E method \in SelectionMethods : SelectionMethodChange(method)
    \/ \E repoName \in WizardRepos : ToggleRepoSelection(repoName)
    \/ \E repoName \in WizardRepos : RemoveRepoSelection(repoName)
    \/ \E propertyName \in PropertyNames : TogglePropertySelection(propertyName)
    \/ \E propertyName \in PropertyNames : RemovePropertySelection(propertyName)
    \/ HandleReposNext
    \/ \E k \in 1..MaxPromptLoads, ok \in BOOLEAN : PromptLoaded(k, ok)
    \/ \E targetStep \in 1..4 : HandleStepClick(targetStep)
    \/ KeyboardPrevious
    \/ KeyboardNext
    \/ \E hash \in UserFragments : UserHashChange(hash)
    \/ HandleHashChange
    \/ \E delta \in (1 - MaxHistory)..(MaxHistory - 1) : HistoryGo(delta)

Spec == Init /\ [][Next]_vars

\* ------------------------------------------------------------------------
\* A session that has reached stage 2
\* ------------------------------------------------------------------------
\* the page as it is loaded without a fragment
FreshWorld ==
    [ app |-> NewAppState, dom |-> NewDom,
      hist |-> <<[state |-> NoState, hash |-> 0]>>, idx |-> 1,
      timers |-> 0, loads |-> <<>>, hc |-> 0, shown |-> <<>>,
      entry |-> [step |-> 1, allowed |-> TRUE],
      first |-> NoEntries, fits |-> TRUE ]

\* DOMContentLoaded on stage 1
LoadedWorld ==
    handleSelectionMethodChange(
        updateHistoryState(enterStage(FreshWorld, 1, FALSE), 1, FALSE))

\* a click on a use case, and the transition its timer makes
StageTwoWorld(useCase) ==
    goToStep([selectUseCase(LoadedWorld, useCase, FALSE) EXCEPT !.timers = @ - 1],
             2, FALSE)

\* what the user types into the fields of stage 2 in such a session: a
\* valid and an invalid organization name, a valid token
SessionOrgInputs == { <<"a", "-", "b">>, <<"-", "a">> }

SessionTokenInputs == { TokenOfLength(TokenMinLength) }

InitSession ==
    \E useCase \in {"tests"} :
        LET w == [StageTwoWorld(useCase) EXCEPT !.shown = <<>>]
        IN /\ appState = w.app
           /\ dom = w.dom
           /\ history = w.hist
           /\ historyIndex = w.idx
           /\ initialized = TRUE
           /\ autoAdvanceTimers = w.timers
           /\ promptLoads = w.loads
           /\ pendingHashChange = w.hc
           /\ shown = w.shown
           /\ lastEvent = Event("autoAdvance", 2, TRUE)
           /\ lastEntry = w.entry
           /\ firstEntry = w.first
           /\ events = 0
           /\ run = NoRun
           /\ catalog = NewCatalog

NextSession ==
    \/ \E useCase \in ClickedUseCases : SelectUseCase(useCase)
    \/ AutoAdvance
    \/ \E value \in SessionOrgInputs : InputOrgName(value)
    \/ \E value \in SessionTokenInputs : InputAuthToken(value)
    \/ HandleAuthNext
    \/ \E fromStep \in 2..4 : BackButton(fromStep)
    \/ \E method \in SelectionMethods : SelectionMethodChange(method)
    \/ \E repoName \in WizardRepos : ToggleRepoSelection(repoName)
    \/ \E repoName \in WizardRepos : RemoveRepoSelection(repoName)
    \/ \E propertyName \in PropertyNames : TogglePropertySelection(propertyName)
    \/ \E propertyName \in PropertyNames : RemovePropertySelection(propertyName)
    \/ HandleReposNext
    \/ \E k \in 1..MaxPromptLoads, ok \in BOOLEAN : PromptLoaded(k, ok)
    \/ \E targetStep \in 1..4 : HandleStepClick(targetStep)
    \/ KeyboardPrevious
    \/ KeyboardNext
    \/ \E hash \in UserFragments : UserHashChange(hash)
    \/ HandleHashChange
    \/ \E delta \in (1 - MaxHistory)..(MaxHistory - 1) : HistoryGo(delta)

SpecSession == InitSession /\ [][NextSession]_vars

\* ------------------------------------------------------------------------
\* Properties of the wizard
\* ------------------------------------------------------------------------
\* C1: currentStep is only ever set to a stage whose precondition
\* (canNavigateToStep) held at the moment the stage was entered.
C1_EnteredStagePreconditionHeld == lastEntry.allowed

\* a navigation request that validateStepAccess answers with false
RefusedRequest(e) ==
    /\ e.kind \in {"stepClick", "keyPrevious", "keyNext", "hashChange"}
    /\ ~e.allowed

WarningShown(s, targetStep) ==
    \E i \in 1..Len(s) :
        /\ s[i].kind = "notification"
        /\ s[i].type = "warning"
        /\ s[i].message = StepAccessMessage(targetStep)

\* C2 as stated: a refused step click, keyboard shortcut or fragment change
\* leaves every session field unchanged, writes no history entry and shows a
\* warning.
C2_RefusalWritesNoHistoryEntry ==
    [][ RefusedRequest(lastEvent') =>
            /\ appState' = appState
            /\ history' = history
            /\ historyIndex' = historyIndex
            /\ WarningShown(shown', lastEvent'.target) ]_vars

\* C2 amended: a refused step click, keyboard shortcut or fragment change
\* leaves every session field unchanged, shows a warning and writes no
\* session snapshot; the only history entry a refusal adds is the state-less
\* entry of the fragment #step-<currentStep> that a refused fragment change
\* assigns to location.hash.
C2_RefusalWritesNoSnapshot ==
    [][ RefusedRequest(lastEvent') =>
            /\ appState' = appState
            /\ WarningShown(shown', lastEvent'.target)
            /\ \/ /\ history' = history
                  /\ historyIndex' = historyIndex
               \/ /\ lastEvent'.kind = "hashChange"
                  /\ historyIndex' = historyIndex + 1
                  /\ history' = Append(SubSeq(history, 1, historyIndex),
                                       [state |-> NoState, hash |-> appState.currentStep]) ]_vars

\* a refused fragment change has rewritten the fragment: the warning is shown
\* and the current history entry is the new state-less one
C2_RefusedFragmentRewritten ==
    /\ lastEvent.kind = "hashChange"
    /\ ~lastEvent.allowed
    /\ WarningShown(shown, lastEvent.target)
    /\ historyIndex = 3
    /\ history[historyIndex] = [state |-> NoState, hash |-> appState.currentStep]

\* C3: a history pop event or a fragment change that asks for a stage failing
\* canNavigateToStep does not change currentStep, and after a refused fragment
\* change the fragment names currentStep.
C3_PopAndFragmentRevalidate ==
    [][ (lastEvent'.kind \in {"popState", "hashChange"} /\ ~lastEvent'.allowed) =>
            /\ appState'.currentStep = appState.currentStep
            /\ lastEvent'.kind = "hashChange" =>
                    history'[historyIndex'].hash = appState'.currentStep ]_vars

\* C4: once validateInputs has processed the two inputs, canNavigateToStep(3)
\* is false if either input fails its validator and true as soon as both pass.
C4_Stage3FollowsInputValidity ==
    lastEvent.kind = "validateInputs" =>
        LET orgPasses == isValidOrgName(sanitizeString(trim(dom.orgNameInput)))
            tokenPasses == isValidToken(trim(dom.authTokenInput))
        IN canNavigateToStep(appState, 3) <=> (orgPasses /\ tokenPasses)

\* C5: canNavigateToStep(1) always holds, canNavigateToStep(2) holds iff a use
\* case is selected, and canNavigateToStep(4) holds iff a use case is selected,
\* organization and token are valid, and the active selection method has a
\* non-empty effective selection ("all" always, "selected" with at least one
\* repository, "properties" with at least one property).
C5_CanNavigateMatchesPreconditions ==
    LET useCaseSelected == appState.selectedUseCase # Null
        credentialsValid == /\ isValidOrgName(appState.orgName)
                            /\ isValidToken(appState.authToken)
        effectiveSelection ==
            CASE appState.selectionMethod = "all" -> TRUE
              [] appState.selectionMethod = "selected" -> Len(appState.selectedRepos) >= 1
              [] appState.selectionMethod = "properties" -> Len(appState.selectedProperties) >= 1
              [] OTHER -> FALSE
    IN /\ canNavigateToStep(appState, 1)
       /\ canNavigateToStep(appState, 2) <=> useCaseSelected
       /\ canNavigateToStep(appState, 3) <=> (useCaseSelected /\ credentialsValid)
       /\ canNavigateToStep(appState, 4) <=>
                (useCaseSelected /\ credentialsValid /\ effectiveSelection)

\* the stage-3 precondition holds and only the empty selection closes stage 4
C5_OnlySelectionMissing ==
    /\ appState.currentStep = 3
    /\ canNavigateToStep(appState, 3)
    /\ appState.selectionMethod = "selected"
    /\ appState.selectedRepos = <<>>
    /\ ~canNavigateToStep(appState, 4)

\* ------------------------------------------------------------------------
\* Workflow run: executeWorkflow and the requests it awaits
\* ------------------------------------------------------------------------
\* HTTP statuses of a failing issue creation: access denied, request timeout
IssueFailures == {403, 408}

\* how a raw fetch of the bot assignment fails: response not ok, or a
\* response carrying GraphQL errors
FetchFailures == {"http", "graphql"}

TargetList(n) == [k \in 1..n |-> RepoName(n + 1 - k)]

TargetLists == { TargetList(n) : n \in 0..MaxTargets }

\* texts of the prompt textarea: empty, blank, one that is empty once
\* sanitized, and a usable one
PromptInputs == { <<>>, <<" ">>, <<"<">>, <<" ", "p", "&">> }

Error(message) == [name |-> "Error", status |-> 0, message |-> message]

APIError(message, status) == [name |-> "APIError", status |-> status, message |-> message]

\* the state executeWorkflow works on
RunWorld == [app |-> appState, dom |-> dom, run |-> run, shown |-> <<>>]

CommitRun(w) ==
    /\ appState' = w.app
    /\ run' = w.run
    /\ shown' = w.shown
    /\ UNCHANGED <<dom, history, historyIndex, initialized, autoAdvanceTimers,
                   promptLoads, pendingHashChange, lastEvent, lastEntry, events,
                   firstEntry, catalog>>

\* a request leaves for the server, built from what appState holds when it
\* is sent: the organization in its address, the token in its headers and,
\* for an issue creation, the use case in title and labels and the prompt
\* in the body
Request(w, kind, repoName) ==
    [w EXCEPT !.run.netLog = Append(@, [kind |-> kind, repo |-> repoName, i |-> w.run.i,
                                        orgName |-> w.app.orgName,
                                        authToken |-> w.app.authToken,
                                        selectedUseCase |-> w.app.selectedUseCase,
                                        promptContent |-> w.app.promptContent]),
              !.run.pending = @ + 1]

\* the response of the request in flight has arrived
Response(w) == [w EXCEPT !.run.pending = @ - 1]

\* the catch block of executeWorkflow
userMessage(error) ==
    IF error.name = "APIError"
    THEN CASE error.status = 401 -> "Authentication failed. Please check your token permissions."
           [] error.status = 403 -> "Access denied. Please ensure your token has the required permissions."
           [] error.status = 404 -> "Organization or repository not found. Please check the organization name."
           [] error.status = 408 -> "Request timeout. Please try again."
           [] OTHER -> "API Error: " \o error.message
    ELSE error.message

\* a catch block of executeWorkflow that resets the session
workflowFailedResetting(w, error) ==
    alert([w EXCEPT !.app = NewAppState, !.run.pc = "done", !.run.outcome = "error"],
          "Workflow execution failed: " \o userMessage(error))

workflowFailed(w, error) ==
    alert([w EXCEPT !.run.pc = "done", !.run.outcome = "error"],
          "Workflow execution failed: " \o userMessage(error))

\* results reporting that calls the run a success only when nothing failed
reportResultsAllOrNothing(w) ==
    LET results == w.run.results
        successCount == Cardinality({k \in 1..Len(results) : results[k].success})
        failureCount == Len(results) - successCount
        w1 == [w EXCEPT !.run.pc = "done",
                        !.run.successCount = successCount,
                        !.run.failureCount = failureCount]
    IN IF failureCount = 0
       THEN [w1 EXCEPT !.run.outcome = "success"]
       ELSE alert([w1 EXCEPT !.run.outcome = "failure"],
                  "No issues were created successfully. Please check your permissions and try again.")

\* the results reporting after the loop; showSuccess opens the success modal
reportResults(w) ==
    LET results == w.run.results
        successCount == Cardinality({k \in 1..Len(results) : results[k].success})
        failureCount == Len(results) - successCount
        w1 == [w EXCEPT !.run.pc = "done",
                        !.run.successCount = successCount,
                        !.run.failureCount = failureCount]
    IN IF successCount > 0
       THEN [w1 EXCEPT !.run.outcome = "success"]
       ELSE alert([w1 EXCEPT !.run.outcome = "failure"],
                  "No issues were created successfully. Please check your permissions and try again.")

\* the end of a loop iteration that waits after every target, the last
\* one included
finishTargetAlwaysDelaying(w, result, bot) ==
    [w EXCEPT !.run.results = Append(@, result),
              !.run.assignment = Append(@, [created |-> w.run.issue, bot |-> bot]),
              !.run.pc = "delay"]

\* the end of one loop iteration: the result is pushed, then either the
\* rate-limit delay starts or the loop is over
finishTarget(w, result, bot) ==
    LET w1 == [w EXCEPT !.run.results = Append(@, result),
                        !.run.assignment = Append(@, [created |-> w.run.issue, bot |-> bot])]
    IN IF w.run.i < Len(w.run.targetRepos)
       THEN [w1 EXCEPT !.run.pc = "delay"]
       ELSE reportResults(w1)

\* a loop without the try/catch around createIssueAndAssignCopilot
targetFailedAbortingRun(w, error) ==
    workflowFailed(w, error)

\* the catch branch of the loop body
targetFailed(w, error) ==
    finishTarget(w, [repo |-> w.run.targetRepos[w.run.i], success |-> FALSE,
                     issue |-> NoIssue, error |-> error.message,
                     errorType |-> error.name], "none")

\* createIssueAndAssignCopilot returns the issue
targetSucceeded(w, bot) ==
    finishTarget(w, [repo |-> w.run.targetRepos[w.run.i], success |-> TRUE,
                     issue |-> w.run.issue, error |-> "",
                     errorType |-> ""], bot)

\* an assignment failure that is thrown on to the loop
assignmentFailedRethrown(w, bot) ==
    targetFailed(w, Error("Failed to assign Copilot to issue"))

\* the catch around assignCopilotToIssue: the failure is logged, the issue
\* is returned
assignmentFailed(w, bot) == targetSucceeded(w, bot)

\* createIssueAndAssignCopilot up to its first request
createIssueAndAssignCopilot(w, repoName) ==
    LET w1 == [w EXCEPT !.run.calls = Append(@, repoName)]
    IN IF repoName = <<>> \/ sanitizeString(repoName) = <<>>
       THEN targetFailed(w1, APIError("Invalid repository name", 400))
       ELSE IF trim(w.app.promptContent) = <<>>
       THEN targetFailed(w1, APIError("Prompt content is required", 400))
       ELSE IF w.app.authToken = <<>>
       THEN targetFailed(w1, APIError("Authentication token required", 401))
       ELSE [Request(w1, "createIssue", repoName) EXCEPT !.run.pc = "createIssue"]

\* the loop body for the target at position i
processTarget(w, i) ==
    createIssueAndAssignCopilot(
        [w EXCEPT !.run.i = i, !.run.page = 0, !.run.issue = NoIssue],
        w.run.targetRepos[i])

\* executeWorkflow without the check of an empty target list: the loop runs
\* over no target and the results are reported
processRepositoriesUnchecked(w, targetRepos) ==
    IF Len(targetRepos) = 0
    THEN reportResults([w EXCEPT !.run.targetRepos = targetRepos])
    ELSE processTarget([w EXCEPT !.run.targetRepos = targetRepos], 1)

\* executeWorkflow once the targets are known
processRepositories(w, targetRepos) ==
    IF Len(targetRepos) = 0
    THEN workflowFailed(w, Error("No repositories found to process."))
    ELSE processTarget([w EXCEPT !.run.targetRepos = targetRepos], 1)

getAllOrgRepos(w) ==
    IF w.app.authToken = <<>>
    THEN workflowFailed(w, Error("Failed to fetch organization repositories: "
                                 \o "Authentication token required"))
    ELSE [Request(w, "listRepos", <<>>) EXCEPT !.run.pc = "resolving"]

getReposWithCustomProperties(app) == app.selectedRepos

\* precondition checks that leave out the prompt text
preconditionErrorIgnoringPrompt(w) ==
    IF w.app.selectedUseCase = Null THEN "Please select a use case first."
    ELSE IF ~isValidOrgName(w.app.orgName) THEN "Please provide a valid organization name."
    ELSE IF ~isValidToken(w.app.authToken) THEN "Please provide a valid authentication token."
    ELSE ""

\* the precondition checks of executeWorkflow: the message of the first one
\* that fails, "" when all pass
preconditionError(w) ==
    IF w.app.selectedUseCase = Null THEN "Please select a use case first."
    ELSE IF ~isValidOrgName(w.app.orgName) THEN "Please provide a valid organization name."
    ELSE IF ~isValidToken(w.app.authToken) THEN "Please provide a valid authentication token."
    ELSE IF trim(w.dom.promptContentTextarea) = <<>> THEN "Please provide prompt content."
    ELSE ""

\* executeWorkflow up to its first await
executeWorkflow(w) ==
    LET w0 == [w EXCEPT !.run = [NoRun EXCEPT !.pc = "started"]]
        promptContent == trim(w.dom.promptContentTextarea)
        w1 == [w0 EXCEPT !.app.promptContent = sanitizeString(promptContent)]
    IN IF preconditionError(w) # ""
       THEN workflowFailed(w0, Error(preconditionError(w)))
       ELSE CASE w.app.selectionMethod = "all" -> getAllOrgRepos(w1)
              [] w.app.selectionMethod = "selected" ->
                    IF Len(w.app.selectedRepos) = 0
                    THEN workflowFailed(w1, Error("Please select at least one repository."))
                    ELSE processRepositories(w1, w.app.selectedRepos)
              [] w.app.selectionMethod = "properties" ->
                    processRepositories(w1, getReposWithCustomProperties(w.app))
              [] OTHER -> workflowFailed(w1, Error("Invalid repository selection method."))

\* the message of the APIError secureFetch throws for a response that is not
\* ok, or for a request that timed out
httpMessage(status) ==
    IF status = 408 THEN "Request timeout" ELSE "HTTP " \o ToString(status)

\* an assignCopilotToIssue that is not awaited: the lookup leaves and the
\* issue is returned at once
assignCopilotToIssueNotAwaited(w) ==
    targetSucceeded(Request(w, "getIssue", w.run.targetRepos[w.run.i]), "assigned")

\* assignCopilotToIssue up to its first request: the issue is looked up
assignCopilotToIssue(w) ==
    [Request(w, "getIssue", w.run.targetRepos[w.run.i]) EXCEPT !.run.pc = "getIssue"]

\* one iteration of the page loop of findCopilotBot
findCopilotBot(w) ==
    [Request([w EXCEPT !.run.page = @ + 1], "suggestedActors", w.run.targetRepos[w.run.i])
        EXCEPT !.run.pc = "suggestedActors"]

assignCopilotUsingGraphQL(w) ==
    [Request(w, "assign", w.run.targetRepos[w.run.i]) EXCEPT !.run.pc = "assign"]

\* a click on the execute button of stage 4
ExecuteWorkflow ==
    /\ initialized
    /\ appState.currentStep = 4
    /\ run.pc \in {"idle", "done"}
    /\ CommitRun(executeWorkflow(RunWorld))

\* the repository listing of getAllOrgRepos arrives
OrgReposListed(repos) ==
    /\ run.pc = "resolving"
    /\ CommitRun(processRepositories(Response(RunWorld), repos))

\* the repository listing fails; getAllOrgRepos throws a plain Error
OrgReposFailed(status) ==
    /\ run.pc = "resolving"
    /\ CommitRun(workflowFailed([Response(RunWorld) EXCEPT !.run.listingStatus = status],
            Error("Failed to fetch organization repositories: " \o httpMessage(status))))

\* the server has created the issue of the target in process
IssueCreated ==
    /\ run.pc = "createIssue"
    /\ LET number == run.issues + 1
           issue == [number |-> number, repo |-> run.targetRepos[run.i]]
       IN CommitRun(assignCopilotToIssue(
                [Response(RunWorld) EXCEPT !.run.issues = number, !.run.issue = issue]))

IssueCreationFailed(status) ==
    /\ run.pc = "createIssue"
    /\ CommitRun(targetFailed(Response(RunWorld), APIError(httpMessage(status), status)))

\* the issue lookup of assignCopilotToIssue answers
IssueDetailsReceived ==
    /\ run.pc = "getIssue"
    /\ CommitRun(findCopilotBot(Response(RunWorld)))

IssueDetailsFailed ==
    /\ run.pc = "getIssue"
    /\ CommitRun(assignmentFailed(Response(RunWorld), "lookupFailed"))

\* a page of suggested actors arrives: it holds the bot, or it does not and
\* is or is not the last page
SuggestedActorsPage(page) ==
    /\ run.pc = "suggestedActors"
    /\ page = "nextPage" => run.page < MaxPages
    /\ CommitRun(CASE page = "found" -> assignCopilotUsingGraphQL(Response(RunWorld))
                   [] page = "nextPage" -> findCopilotBot(Response(RunWorld))
                   [] page = "lastPage" -> targetSucceeded(Response(RunWorld), "notFound"))

SuggestedActorsFailed(failure) ==
    /\ run.pc = "suggestedActors"
    /\ CommitRun(assignmentFailed(Response(RunWorld), "queryFailed"))

\* the assignment mutation answers
CopilotAssigned ==
    /\ run.pc = "assign"
    /\ CommitRun(targetSucceeded(Response(RunWorld), "assigned"))

CopilotAssignmentFailed(failure) ==
    /\ run.pc = "assign"
    /\ CommitRun(assignmentFailed(Response(RunWorld), "mutationFailed"))

\* the rate-limit delay between two targets is over
RateLimitDelayElapsed ==
    /\ run.pc = "delay"
    /\ CommitRun(processTarget([RunWorld EXCEPT !.run.delays = @ + 1], run.i + 1))

\* a session on stage 4, the prompt textarea holding what the user left in it
InitRun ==
    \E useCase \in {Null, "tests"},
       orgName \in {<<>>, <<"a", "-", "b">>},
       authToken \in {<<>>, TokenOfLength(TokenMinLength)},
       method \in SelectionMethods,
       repos \in TargetLists,
       prompt \in PromptInputs :
        LET app == [NewAppState EXCEPT !.currentStep = 4,
                                       !.selectedUseCase = useCase,
                                       !.orgName = orgName,
                                       !.authToken = authToken,
                                       !.selectionMethod = method,
                                       !.selectedRepos = repos]
        IN /\ appState = app
           /\ dom = [orgNameInput |-> orgName, authTokenInput |-> authToken,
                     selectionDropdown |-> method, promptContentTextarea |-> prompt]
           /\ history = <<[state |-> [step |-> 4, appState |-> app], hash |-> 4]>>
           /\ historyIndex = 1
           /\ initialized = TRUE
           /\ autoAdvanceTimers = 0
           /\ promptLoads = <<>>
           /\ pendingHashChange = 0
           /\ shown = <<>>
           /\ lastEvent = Event("none", 0, TRUE)
           /\ lastEntry = [step |-> 4, allowed |-> canNavigateToStep(app, 4)]
           /\ events = 0
           /\ run = NoRun
           /\ firstEntry = NoEntries
           /\ catalog = NewCatalog

NextRun ==
    \/ ExecuteWorkflow
    \/ \E repos \in TargetLists : OrgReposListed(repos)
    \/ \E status \in IssueFailures : OrgReposFailed(status)
    \/ IssueCreated
    \/ \E status \in IssueFailures : IssueCreationFailed(status)
    \/ IssueDetailsReceived
    \/ IssueDetailsFailed
    \/ \E page \in {"found", "nextPage", "lastPage"} : SuggestedActorsPage(page)
    \/ \E failure \in FetchFailures : SuggestedActorsFailed(failure)
    \/ CopilotAssigned
    \/ \E failure \in FetchFailures : CopilotAssignmentFailed(failure)
    \/ RateLimitDelayElapsed

\* one session on stage 4 and the runs started from it; the events of the
\* wizard are the subject of Spec
SpecRun == InitRun /\ [][NextRun]_vars

\* ------------------------------------------------------------------------
\* Properties of the workflow run
\* ------------------------------------------------------------------------
\* empty or whitespace-only text
IsBlank(text) == \A k \in 1..Len(text) : text[k] \in Whitespace

\* the messages of the entry preconditions the session does not meet
UnmetPreconditions ==
    {m \in {"Please select a use case first.",
            "Please provide a valid organization name.",
            "Please provide a valid authentication token.",
            "Please provide prompt content."} :
        \/ m = "Please select a use case first." /\ appState.selectedUseCase = Null
        \/ m = "Please provide a valid organization name." /\ ~isValidOrgName(appState.orgName)
        \/ m = "Please provide a valid authentication token." /\ ~isValidToken(appState.authToken)
        \/ m = "Please provide prompt content." /\ IsBlank(dom.promptContentTextarea)}

\* C6: when the use case is unset, the organization or the token is invalid,
\* or the prompt text is empty or whitespace-only, executeWorkflow ends at
\* once with an error message naming an unmet precondition and sends no
\* request: no repository listing, no issue creation, no bot lookup.
C6_FailsFastWithoutRequests ==
    (run.pc # "idle" /\ UnmetPreconditions # {}) =>
        /\ run.pc = "done"
        /\ run.outcome = "error"
        /\ run.netLog = <<>>
        /\ run.pending = 0
        /\ run.calls = <<>>
        /\ Len(shown) = 1
        /\ shown[1].kind = "alert"
        /\ \E m \in UnmetPreconditions :
                shown[1].message = "Workflow execution failed: " \o m

\* a run refused only because the prompt text is blank
C6_BlankPromptRefused ==
    /\ run.pc = "done"
    /\ run.outcome = "error"
    /\ UnmetPreconditions = {"Please provide prompt content."}
    /\ dom.promptContentTextarea = <<" ">>

CreateIssueRequests == SelectSeq(run.netLog, LAMBDA r : r.kind = "createIssue")

\* C7: createIssueAndAssignCopilot is invoked for every target exactly once,
\* in target order, whatever failed for the targets before; an issue-creation
\* request is sent at most once per target, and once per invocation when the
\* sanitized prompt is not blank; a run with targets ends only through the
\* results reporting, with every target attempted.
C7_EveryTargetAttemptedOnce ==
    LET n == Len(run.targetRepos)
        posts == CreateIssueRequests
    IN /\ Len(run.calls) <= n
       /\ run.calls = SubSeq(run.targetRepos, 1, Len(run.calls))
       /\ \A a, b \in 1..Len(posts) : a < b => posts[a].i < posts[b].i
       /\ \A a \in 1..Len(posts) : posts[a].repo = run.calls[posts[a].i]
       /\ ~IsBlank(appState.promptContent) => Len(posts) = Len(run.calls)
       /\ (run.pc = "done" /\ n > 0) =>
                /\ run.calls = run.targetRepos
                /\ Len(run.results) = n
                /\ run.outcome \in {"success", "failure"}

\* the first two of three targets failed and the third was still processed
C7_FailuresDidNotStopTheRun ==
    /\ run.pc = "done"
    /\ Len(run.targetRepos) = 3
    /\ Len(run.calls) = 3
    /\ ~run.results[1].success
    /\ ~run.results[2].success
    /\ run.results[3].success

\* positions of the targets whose issue the server created
CreatedIssues == {k \in 1..Len(run.assignment) : run.assignment[k].created # NoIssue}

BotFailures == {"lookupFailed", "queryFailed", "mutationFailed"}

\* targets R1 (issue created), R2 (issue creation fails with 403),
\* R3 (issue created, bot assignment fails)
ScenarioR1R2R3 ==
    /\ Len(run.results) = 3
    /\ 1 \in CreatedIssues
    /\ 2 \notin CreatedIssues
    /\ run.results[2].error = httpMessage(403)
    /\ 3 \in CreatedIssues
    /\ run.assignment[3].bot \in BotFailures

\* C8: when a run completes, successCount + failureCount is the number of
\* targets, successCount is the number of issues created, the run reports
\* success iff successCount >= 1 and failure iff successCount = 0; for
\* R1 created, R2 refused with 403, R3 created with a failed bot assignment
\* it reports success with successCount = 2 and failureCount = 1.
C8_CountsAndOverallOutcome ==
    (run.pc = "done" /\ run.outcome # "error") =>
        /\ run.successCount + run.failureCount = Len(run.targetRepos)
        /\ run.successCount = Cardinality(CreatedIssues)
        /\ run.outcome = "success" <=> run.successCount >= 1
        /\ run.outcome = "failure" <=> run.successCount = 0
        /\ run.outcome = "failure" =>
                \E k \in 1..Len(shown) : shown[k].kind = "alert"
        /\ ScenarioR1R2R3 =>
                /\ run.outcome = "success"
                /\ run.successCount = 2
                /\ run.failureCount = 1

C8_ScenarioCompleted ==
    /\ run.pc = "done"
    /\ ScenarioR1R2R3
    /\ run.outcome = "success"

\* C9: a target whose issue was created is recorded as a success carrying
\* that issue, whether the bot was assigned, was not found, or the issue
\* lookup, the suggested-actors query or the assignment mutation failed.
C9_IssueSuccessIsResultSuccess ==
    /\ Len(run.assignment) = Len(run.results)
    /\ \A k \in CreatedIssues :
            /\ run.results[k].success
            /\ run.results[k].issue = run.assignment[k].created
            /\ run.results[k].issue.repo = run.results[k].repo
            /\ run.assignment[k].bot \in BotFailures \cup {"assigned", "notFound"}

\* three issues created, the bot assignment failing at the lookup, at the
\* query and at the mutation
C9_EveryBotFailureSwallowed ==
    /\ run.pc = "done"
    /\ Len(run.results) = 3
    /\ run.assignment[1].bot = "lookupFailed"
    /\ run.assignment[2].bot = "queryFailed"
    /\ run.assignment[3].bot = "mutationFailed"
    /\ \A k \in 1..3 : run.results[k].success

\* C10: targets are processed in resolved order, one request at a time: the
\* requests of a target never follow those of a later target, the
\* issue-creation request of a target is sent only when the results of all
\* targets before it are recorded and no request is in flight behind it,
\* and the results hold one entry per target in target order.
C10_SequentialInTargetOrder ==
    LET log == run.netLog
        n == Len(run.targetRepos)
    IN /\ run.pending <= 1
       /\ run.pc \in {"idle", "done", "delay"} => run.pending = 0
       /\ \A a, b \in 1..Len(log) : a < b => log[a].i <= log[b].i
       /\ \A a, b \in 1..Len(log) :
                (a < b /\ log[b].kind = "createIssue") => log[a].i < log[b].i
       /\ \A a \in 1..Len(log) :
                log[a].i >= 1 => /\ Len(run.results) >= log[a].i - 1
                                 /\ log[a].repo = run.targetRepos[log[a].i]
       /\ Len(run.results) <= n
       /\ \A k \in 1..Len(run.results) : run.results[k].repo = run.targetRepos[k]
       /\ (run.pc = "done" /\ n > 0) => Len(run.results) = n

\* a run over three targets with every bot assigned
C10_ThreeTargetsInOrder ==
    /\ run.pc = "done"
    /\ Len(run.targetRepos) = 3
    /\ run.successCount = 3
    /\ \A k \in 1..3 : run.assignment[k].bot = "assigned"
    /\ Len(run.netLog) >= 12

\* ------------------------------------------------------------------------
\* Catalogs of stage 3: strings, repositories, pages
\* ------------------------------------------------------------------------
UpperLetters == <<"A","B","C","D","E","F","G","H","I","J","K","L","M",
                  "N","O","P","Q","R","S","T","U","V","W","X","Y","Z">>

LowerLetters == <<"a","b","c","d","e","f","g","h","i","j","k","l","m",
                  "n","o","p","q","r","s","t","u","v","w","x","y","z">>

\* String.prototype.toLowerCase
toLowerCase(s) ==
    [i \in 1..Len(s) |->
        IF s[i] \in Upper
        THEN LowerLetters[CHOOSE k \in 1..Len(UpperLetters) : UpperLetters[k] = s[i]]
        ELSE s[i]]

\* String.prototype.includes
includes(s, t) ==
    \E i \in 0..(Len(s) - Len(t)) : SubSeq(s, i + 1, i + Len(t)) = t

\* an index of Array.prototype.slice: a negative one counts from the end
sliceIndex(s, k) ==
    IF k < 0 THEN (IF Len(s) + k < 0 THEN 0 ELSE Len(s) + k)
    ELSE IF k < Len(s) THEN k ELSE Len(s)

\* Array.prototype.slice(start, end)
slice(s, start, end) ==
    LET from == sliceIndex(s, start)
        to == sliceIndex(s, end)
    IN [i \in 1..(to - from) |-> s[from + i]]

\* Math.ceil(count / itemsPerPage)
ceilOfQuotient(count, itemsPerPage) ==
    (count + itemsPerPage - 1) \div itemsPerPage

RECURSIVE Decimal(_)
Decimal(n) ==
    LET d == CHOOSE c \in Digit : c = ToString(n % 10)
    IN IF n < 10 THEN <<d>> ELSE Append(Decimal(n \div 10), d)

\* the id-th repository of the organization, most recently updated first;
\* some repositories carry a description, the others none (the filter
\* treats a null and an empty description alike)
Repository(id) ==
    [ name |-> <<"r">> \o Decimal(id),
      description |-> IF id % 50 = 7 THEN <<"D", "o", "c", "s">> ELSE <<>> ]

\* what the server answers to page `page` of an organization of n repositories
RepositoriesPage(n, page) ==
    LET first == (page - 1) * PerPage
        rest == IF n > first THEN n - first ELSE 0
    IN [j \in 1..(IF rest < PerPage THEN rest ELSE PerPage) |-> Repository(first + j)]

\* the token check githubAPI makes before it sends anything
hasToken(app) == app.authToken # <<>>

\* ------------------------------------------------------------------------
\* Repository table: rendering and page navigation
\* ------------------------------------------------------------------------
renderRepositories(c) ==
    LET p == c.reposPagination
        startIndex == (p.currentPage - 1) * p.itemsPerPage
        endIndex == startIndex + p.itemsPerPage
    IN [c EXCEPT !.reposTbody = slice(p.filtered, startIndex, endIndex)]

renderCustomProperties(c) ==
    LET p == c.propertiesPagination
        startIndex == (p.currentPage - 1) * p.itemsPerPage
        endIndex == startIndex + p.itemsPerPage
    IN [c EXCEPT !.propertiesTbody = slice(p.filtered, startIndex, endIndex)]

\* changeReposPage without its range check
changeReposPageUnchecked(c, direction) ==
    renderRepositories([c EXCEPT !.reposPagination.currentPage = @ + direction])

changeReposPage(c, direction) ==
    LET newPage == c.reposPagination.currentPage + direction
    IN IF newPage >= 1 /\ newPage <= c.reposPagination.totalPages
       THEN renderRepositories([c EXCEPT !.reposPagination.currentPage = newPage])
       ELSE c

changePropertiesPage(c, direction) ==
    LET newPage == c.propertiesPagination.currentPage + direction
    IN IF newPage >= 1 /\ newPage <= c.propertiesPagination.totalPages
       THEN renderCustomProperties([c EXCEPT !.propertiesPagination.currentPage = newPage])
       ELSE c

\* ------------------------------------------------------------------------
\* loadRepositories / loadAllRepositories
\* ------------------------------------------------------------------------
\* loadRepositories after loadAllRepositories has returned
repositoriesLoaded(c, failedPage) ==
    LET allRepos == slice(c.load.allRepos, 0, MaxItems)
    IN renderRepositories(
         [c EXCEPT !.allRepos = allRepos,
                   !.reposPagination.filtered = allRepos,
                   !.reposPagination.currentPage = 1,
                   !.reposPagination.totalPages =
                       ceilOfQuotient(Len(allRepos), c.reposPagination.itemsPerPage),
                   !.load.pc = "idle",
                   !.load.allRepos = <<>>,
                   !.last = [op |-> "loadRepositories", asked |-> c.load.asked,
                             failedPage |-> failedPage]])

\* a failure that throws away what was accumulated
pageFailedDiscarding(c) ==
    repositoriesLoaded([c EXCEPT !.load.allRepos = <<>>], c.load.page)

\* the catch block of the loop: stop loading, keep what was accumulated
pageFailed(c) == repositoriesLoaded(c, c.load.page)

\* the request of one iteration, without the loop condition
requestPageUncapped(c, app) ==
    IF hasToken(app)
    THEN [c EXCEPT !.load.pc = "page", !.load.asked = Append(@, c.load.page)]
    ELSE pageFailed(c)

\* the loop condition and the request of one iteration
requestPage(c, app) ==
    IF Len(c.load.allRepos) < MaxItems
    THEN IF hasToken(app)
         THEN [c EXCEPT !.load.pc = "page", !.load.asked = Append(@, c.load.page)]
         ELSE pageFailed(c)
    ELSE repositoriesLoaded(c, 0)

\* an iteration that stops at an empty page only
pageReceivedUntilEmpty(c, app, repos) ==
    IF Len(repos) = 0 THEN repositoriesLoaded(c, 0)
    ELSE LET c1 == [c EXCEPT !.load.allRepos = @ \o repos, !.load.page = @ + 1]
         IN IF Len(c1.load.allRepos) < MaxItems
            THEN [c1 EXCEPT !.load.pc = "delay"]
            ELSE requestPage(c1, app)

\* the rest of an iteration, once the page has arrived
pageReceived(c, app, repos) ==
    IF Len(repos) = 0 THEN repositoriesLoaded(c, 0)
    ELSE LET c1 == [c EXCEPT !.load.allRepos = @ \o repos, !.load.page = @ + 1]
         IN IF Len(repos) < PerPage THEN repositoriesLoaded(c1, 0)
            ELSE IF Len(c1.load.allRepos) < MaxItems
                 THEN [c1 EXCEPT !.load.pc = "delay"]
                 ELSE requestPage(c1, app)

loadRepositories(c, app) ==
    requestPage([c EXCEPT !.load = [pc |-> "start", page |-> 1, allRepos |-> <<>>,
                                    asked |-> <<>>],
                          !.last = [op |-> "showLoading"]], app)

\* ------------------------------------------------------------------------
\* loadCustomProperties
\* ------------------------------------------------------------------------
getMockCustomProperties ==
    <<
      [ property_name |-> <<"e","n","v","i","r","o","n","m","e","n","t">>,
        value_type |-> "single_select",
        description |->
          << "D","e","p","l","o","y","m","e","n","t"," ","e","n","v",
             "i","r","o","n","m","e","n","t"," ","(","d","e","v",",",
             " ","s","t","a","g","i","n","g",","," ","p","r","o","d",
             ")" >> ],
      [ property_name |-> <<"t","e","a","m">>,
        value_type |-> "string",
        description |->
          << "O","w","n","i","n","g"," ","t","e","a","m"," ","o","r",
             " ","d","e","p","a","r","t","m","e","n","t" >> ],
      [ property_name |-> <<"p","r","i","o","r","i","t","y">>,
        value_type |-> "single_select",
        description |->
          << "P","r","o","j","e","c","t"," ","p","r","i","o","r","i",
             "t","y"," ","l","e","v","e","l" >> ],
      [ property_name |-> <<"f","r","a","m","e","w","o","r","k">>,
        value_type |-> "string",
        description |->
          << "P","r","i","m","a","r","y"," ","t","e","c","h","n","o",
             "l","o","g","y"," ","f","r","a","m","e","w","o","r","k",
             " ","u","s","e","d" >> ],
      [ property_name |-> <<"s","t","a","t","u","s">>,
        value_type |-> "single_select",
        description |->
          << "C","u","r","r","e","n","t"," ","p","r","o","j","e","c",
             "t"," ","s","t","a","t","u","s" >> ]
    >>

\* the id-th property of an organization's schema
Property(id) ==
    [ property_name |-> <<"p">> \o Decimal(id),
      value_type |-> "string",
      description |-> <<>> ]

\* sizes of the schema the server can answer with
SchemaSizes == {0, 3, 120}

Schema(n) == [j \in 1..n |-> Property(j)]

\* loadCustomProperties once allProperties is set, by either branch
customPropertiesLoaded(c, allProperties, failed) ==
    renderCustomProperties(
      [c EXCEPT !.allProperties = allProperties,
                !.propertiesPagination.filtered = allProperties,
                !.propertiesPagination.currentPage = 1,
                !.propertiesPagination.totalPages =
                    ceilOfQuotient(Len(allProperties), c.propertiesPagination.itemsPerPage),
                !.propertiesLoad = "idle",
                !.last = [op |-> "loadCustomProperties", failed |-> failed]])

schemaReceived(c, properties) ==
    customPropertiesLoaded(c, slice(properties, 0, MaxItems), FALSE)

\* the schema request failed and the failure left loadCustomProperties
schemaFailedRethrown(c) ==
    [c EXCEPT !.propertiesLoad = "idle",
              !.alerts = @ + 1,
              !.last = [op |-> "loadCustomProperties", failed |-> TRUE]]

\* the inner catch block: the built-in example set stands in
schemaFailed(c) ==
    customPropertiesLoaded(c, getMockCustomProperties, TRUE)

loadCustomProperties(c, app) ==
    IF hasToken(app)
    THEN [c EXCEPT !.propertiesLoad = "schema", !.last = [op |-> "showLoading"]]
    ELSE schemaFailed(c)

\* ------------------------------------------------------------------------
\* filterRepos / filterProperties
\* ------------------------------------------------------------------------
\* sanitizeString(searchInput.value.toLowerCase().trim())
searchTermOf(value) == sanitizeString(trim(toLowerCase(value)))

\* the filter predicate; a null and an empty description are both falsy
matchesTerm(name, description, searchTerm) ==
    \/ includes(toLowerCase(name), searchTerm)
    \/ /\ description # <<>>
       /\ includes(toLowerCase(description), searchTerm)

localMatchesOf(allRepos, searchTerm) ==
    SelectSeq(allRepos, LAMBDA repo : matchesTerm(repo.name, repo.description, searchTerm))

\* "Combine and deduplicate"
RECURSIVE combine(_, _)
combine(allMatches, apiMatches) ==
    IF apiMatches = <<>> THEN allMatches
    ELSE LET repo == Head(apiMatches)
             found == \E i \in 1..Len(allMatches) : allMatches[i].name = repo.name
         IN combine(IF found THEN allMatches ELSE Append(allMatches, repo),
                    Tail(apiMatches))

\* what the server can answer to a search: nothing, or a repository of the
\* catalog and, twice, one that no catalog holds
SearchResponses ==
    { <<>>, <<Repository(7), Repository(MaxItems + 1000), Repository(MaxItems + 1000)>> }

\* a cache whose entries are never younger than the time to live
cacheSetStale(cache, key, data) ==
    {e \in cache : e.key # key} \cup {[key |-> key, data |-> data, fresh |-> FALSE]}

\* PerformanceUtils.cache.set
cacheSet(cache, key, data) ==
    {e \in cache : e.key # key} \cup {[key |-> key, data |-> data, fresh |-> TRUE]}

\* "Reset to first page and update pagination", then renderRepositories
reposFiltered(c, filteredRepos, outcome) ==
    renderRepositories(
      [c EXCEPT !.reposPagination.filtered = filteredRepos,
                !.reposPagination.currentPage = 1,
                !.reposPagination.totalPages =
                    ceilOfQuotient(Len(filteredRepos), c.reposPagination.itemsPerPage),
                !.last = [op |-> "filterRepos"] @@ outcome])

\* the remote search is asked whenever the term is not empty
askRemoteAlways(localMatches, searchTerm) == TRUE

\* "If we have few local matches, try to search for more repos via API"
askRemote(localMatches, searchTerm) ==
    Len(localMatches) < RemoteSearchBelow /\ Len(searchTerm) >= RemoteSearchMinLength

\* the remote results replace the list
searchSucceededRemoteOnly(c, localMatches, apiMatches, remote) ==
    reposFiltered(c, apiMatches,
                  [remote |-> remote, localMatches |-> localMatches,
                   apiMatches |-> apiMatches])

searchSucceeded(c, localMatches, apiMatches, remote) ==
    reposFiltered(c, combine(localMatches, apiMatches),
                  [remote |-> remote, localMatches |-> localMatches,
                   apiMatches |-> apiMatches])

\* the failure of the search leaves filterRepos
searchFailedRethrown(c, localMatches) ==
    [c EXCEPT !.alerts = @ + 1,
              !.last = [op |-> "filterRepos", remote |-> "failed",
                        localMatches |-> localMatches]]

\* the catch block of filterRepos
searchFailed(c, localMatches) ==
    reposFiltered(c, localMatches, [remote |-> "failed", localMatches |-> localMatches])

filterRepos(c, app, value) ==
    LET searchTerm == searchTermOf(value)
        c1 == [c EXCEPT !.reposPagination.searchTerm = searchTerm]
        localMatches == localMatchesOf(c.allRepos, searchTerm)
        cacheKey == <<app.orgName, searchTerm>>
        cached == {e \in c.cache : e.key = cacheKey /\ e.fresh}
    IN IF searchTerm = <<>>
       THEN reposFiltered(c1, c.allRepos, [remote |-> "none", localMatches |-> c.allRepos])
       ELSE IF askRemote(localMatches, searchTerm)
            THEN IF cached # {}
                 THEN searchSucceeded(c1, localMatches, (CHOOSE e \in cached : TRUE).data,
                                      "cache")
                 ELSE IF hasToken(app)
                      THEN [c1 EXCEPT !.searches =
                                          Append(@, [cacheKey |-> cacheKey,
                                                     localMatches |-> localMatches]),
                                      !.last = [op |-> "filterRepos", remote |-> "asked",
                                                localMatches |-> localMatches]]
                      ELSE searchFailed(c1, localMatches)
            ELSE reposFiltered(c1, localMatches,
                               [remote |-> "none", localMatches |-> localMatches])

\* searchRepositoriesAPI has returned data.items || [] to getCached
searchReceived(c, i, items) ==
    searchSucceeded([c EXCEPT !.searches = RemoveAt(@, i),
                              !.cache = cacheSet(@, c.searches[i].cacheKey, items)],
                    c.searches[i].localMatches, items, "request")

searchRejected(c, i) ==
    searchFailed([c EXCEPT !.searches = RemoveAt(@, i)], c.searches[i].localMatches)

filterProperties(c, value) ==
    LET searchTerm == searchTermOf(value)
        filteredProperties ==
            IF searchTerm = <<>> THEN c.allProperties
            ELSE SelectSeq(c.allProperties,
                           LAMBDA property : matchesTerm(property.property_name,
                                                         property.description, searchTerm))
    IN renderCustomProperties(
         [c EXCEPT !.propertiesPagination.searchTerm = searchTerm,
                   !.propertiesPagination.filtered = filteredProperties,
                   !.propertiesPagination.currentPage = 1,
                   !.propertiesPagination.totalPages =
                       ceilOfQuotient(Len(filteredProperties),
                                      c.propertiesPagination.itemsPerPage),
                   !.last = [op |-> "filterProperties"]])

\* ------------------------------------------------------------------------
\* Stage 3 with its catalogs: actions
\* ------------------------------------------------------------------------
\* sizes of the organization: no repository, or two full pages and a half
OrgSizes == {0, 250}

\* what the user types into the repository search box: nothing, one letter
\* that no repository has, the start of many names, a word of a few
\* descriptions
SearchInputs ==
    { <<>>, <<"z">>, <<"R", "1">>, <<" ", "d", "o", "c", "s">> }

\* what the user types into the property search box
PropertySearchInputs == { <<>>, <<"<", "P", "1">>, <<"z", "z">> }

\* ways a request fails: an HTTP error status, the request timeout, the network
RequestFailures == {"http", "timeout", "network"}

\* the loading modal covers the page while a catalog loads
Loading == catalog.load.pc # "idle" \/ catalog.propertiesLoad # "idle"

CommitCatalog(c, handled) ==
    /\ catalog' = c
    /\ events' = events + handled
    /\ UNCHANGED <<history, historyIndex, initialized, autoAdvanceTimers,
                   promptLoads, pendingHashChange, shown, lastEvent, lastEntry, run,
                   firstEntry>>

UserEvent(c) ==
    /\ ~Loading
    /\ events < MaxCatalogEvents
    /\ CommitCatalog(c, 1)
    /\ UNCHANGED <<appState, dom>>

\* the dropdown changes to "selected": handleSelectionMethodChange
SelectRepositories ==
    /\ ~Loading
    /\ events < MaxCatalogEvents
    /\ appState' = [appState EXCEPT !.selectionMethod = "selected"]
    /\ dom' = [dom EXCEPT !.selectionDropdown = "selected"]
    /\ CommitCatalog(loadRepositories(catalog, appState), 1)

\* the dropdown changes to "properties": handleSelectionMethodChange
SelectCustomProperties ==
    /\ ~Loading
    /\ events < MaxCatalogEvents
    /\ appState' = [appState EXCEPT !.selectionMethod = "properties"]
    /\ dom' = [dom EXCEPT !.selectionDropdown = "properties"]
    /\ CommitCatalog(loadCustomProperties(catalog, appState), 1)

Arrived(c) == CommitCatalog(c, 0) /\ UNCHANGED <<appState, dom>>

\* the response to the page request of loadAllRepositories
RepositoriesPageArrived ==
    /\ catalog.load.pc = "page"
    /\ Arrived(pageReceived(catalog, appState,
                            RepositoriesPage(catalog.orgSize, catalog.load.page)))

RepositoriesPageFailed(failure) ==
    /\ catalog.load.pc = "page"
    /\ Arrived(pageFailed(catalog))

\* the delay between two page requests is over
PageDelayElapsed ==
    /\ catalog.load.pc = "delay"
    /\ Arrived(requestPage(catalog, appState))

SchemaArrived(n) ==
    /\ catalog.propertiesLoad = "schema"
    /\ Arrived(schemaReceived(catalog, Schema(n)))

SchemaRequestFailed(failure) ==
    /\ catalog.propertiesLoad = "schema"
    /\ Arrived(schemaFailed(catalog))

\* a click on the previous (-1) or next (+1) button of the repository table
ChangeReposPage(direction) ==
    UserEvent([changeReposPage(catalog, direction) EXCEPT
                   !.last = [op |-> "changeReposPage", direction |-> direction]])

ChangePropertiesPage(direction) ==
    UserEvent([changePropertiesPage(catalog, direction) EXCEPT
                   !.last = [op |-> "changePropertiesPage", direction |-> direction]])

\* the debounced input listener of the repository search box
FilterRepos(value) ==
    /\ Len(catalog.searches) < MaxSearches
    /\ UserEvent(filterRepos(catalog, appState, value))

FilterProperties(value) ==
    UserEvent(filterProperties(catalog, value))

SearchArrived(i, items) ==
    /\ i \in 1..Len(catalog.searches)
    /\ Arrived(searchReceived(catalog, i, items))

SearchRequestFailed(i, failure) ==
    /\ i \in 1..Len(catalog.searches)
    /\ Arrived(searchRejected(catalog, i))

\* a minute passes: what the cache holds is no longer fresh
CacheExpired ==
    /\ \E e \in catalog.cache : e.fresh
    /\ Arrived([catalog EXCEPT !.cache = {[e EXCEPT !.fresh = FALSE] : e \in @}])

\* a session on stage 3, with or without a token, nothing loaded yet
StageThree(orgSizes) ==
    \E authToken \in {<<>>, TokenOfLength(TokenMinLength)},
       orgSize \in orgSizes :
        LET app == [NewAppState EXCEPT !.currentStep = 3,
                                       !.selectedUseCase = "tests",
                                       !.orgName = <<"a", "-", "b">>,
                                       !.authToken = authToken]
        IN /\ appState = app
           /\ dom = [NewDom EXCEPT !.orgNameInput = app.orgName,
                                   !.authTokenInput = authToken]
           /\ history = <<[state |-> [step |-> 3, appState |-> app], hash |-> 3]>>
           /\ historyIndex = 1
           /\ initialized = TRUE
           /\ autoAdvanceTimers = 0
           /\ promptLoads = <<>>
           /\ pendingHashChange = 0
           /\ shown = <<>>
           /\ lastEvent = Event("none", 0, TRUE)
           /\ lastEntry = [step |-> 3, allowed |-> canNavigateToStep(app, 3)]
           /\ events = 0
           /\ run = NoRun
           /\ firstEntry = NoEntries
           /\ catalog = [NewCatalog EXCEPT !.orgSize = orgSize]

InitCatalog == StageThree(OrgSizes)

NextCatalog ==
    \/ SelectRepositories
    \/ SelectCustomProperties
    \/ RepositoriesPageArrived
    \/ \E failure \in RequestFailures : RepositoriesPageFailed(failure)
    \/ PageDelayElapsed
    \/ \E n \in SchemaSizes : SchemaArrived(n)
    \/ \E failure \in RequestFailures : SchemaRequestFailed(failure)
    \/ \E direction \in {-1, 1} : ChangeReposPage(direction)
    \/ \E direction \in {-1, 1} : ChangePropertiesPage(direction)
    \/ \E value \in SearchInputs : FilterRepos(value)
    \/ \E value \in PropertySearchInputs : FilterProperties(value)
    \/ \E i \in 1..MaxSearches, items \in SearchResponses : SearchArrived(i, items)
    \/ \E i \in 1..MaxSearches, failure \in RequestFailures : SearchRequestFailed(i, failure)
    \/ CacheExpired

SpecCatalog == InitCatalog /\ [][NextCatalog]_vars

\* the repository load alone, for organizations of every size: none, a
\* short first page, two full pages and a half, a whole number of pages,
\* and more than the catalog keeps
LoadOrgSizes == {0, 12, 250, 300, MaxItems + PerPage}

InitLoad == StageThree(LoadOrgSizes)

NextLoad ==
    \/ SelectRepositories
    \/ RepositoriesPageArrived
    \/ \E failure \in RequestFailures : RepositoriesPageFailed(failure)
    \/ PageDelayElapsed

SpecLoad == InitLoad /\ [][NextLoad]_vars

\* ------------------------------------------------------------------------
\* Claims about the catalogs of stage 3
\* ------------------------------------------------------------------------
PaginationStates == {catalog.reposPagination, catalog.propertiesPagination}

\* C11: in both tables, after any catalog load, filter change or page
\* navigation, the current page lies between 1 and totalPages, and totalPages
\* is the number of pages the filtered list fills, but never less than 1.
C11_CurrentPageWithinTotalPages ==
    \A p \in PaginationStates :
        /\ 1 <= p.currentPage
        /\ p.currentPage <= p.totalPages
        /\ p.totalPages =
             (IF Len(p.filtered) = 0 THEN 1
              ELSE ceilOfQuotient(Len(p.filtered), p.itemsPerPage))

\* items (page-1)*pageSize .. page*pageSize - 1 of a list, counted from 0
PageOf(items, page, pageSize) ==
    LET first == (page - 1) * pageSize
        last == IF page * pageSize < Len(items) THEN page * pageSize ELSE Len(items)
    IN [i \in 1..(last - first) |-> items[first + i]]

\* the step is a click on a page button of the table
IsPageChange(op, direction) ==
    /\ events' = events + 1
    /\ catalog'.last = [op |-> op, direction |-> direction]

PageChanged(before, after, tbodyBefore, tbodyAfter, direction) ==
    LET newPage == before.currentPage + direction
    IN IF newPage >= 1 /\ newPage <= before.totalPages
       THEN /\ after = [before EXCEPT !.currentPage = newPage]
            /\ tbodyAfter = PageOf(before.filtered, newPage, before.itemsPerPage)
       ELSE /\ [catalog' EXCEPT !.last = catalog.last] = catalog
            /\ tbodyAfter = tbodyBefore

\* C12: changeReposPage(d) and changePropertiesPage(d), d = -1 or +1, change
\* nothing when currentPage + d is outside 1..totalPages; otherwise they move
\* currentPage by d and the table shows exactly the items
\* (page-1)*pageSize .. page*pageSize - 1 of the filtered list.
C12_PageChangeStaysInRange ==
    [][\A direction \in {-1, 1} :
        /\ IsPageChange("changeReposPage", direction) =>
             /\ PageChanged(catalog.reposPagination, catalog'.reposPagination,
                            catalog.reposTbody, catalog'.reposTbody, direction)
             /\ catalog'.propertiesPagination = catalog.propertiesPagination
        /\ IsPageChange("changePropertiesPage", direction) =>
             /\ PageChanged(catalog.propertiesPagination, catalog'.propertiesPagination,
                            catalog.propertiesTbody, catalog'.propertiesTbody, direction)
             /\ catalog'.reposPagination = catalog.reposPagination
      ]_vars

\* the second page of a list of several pages is on display after "next"
C12_SecondPageShown ==
    /\ catalog.last = [op |-> "changeReposPage", direction |-> 1]
    /\ catalog.reposPagination.currentPage = 2
    /\ catalog.reposPagination.totalPages > 2
    /\ Len(catalog.reposTbody) = DefaultPageSize
    /\ catalog.reposTbody[1] = catalog.reposPagination.filtered[DefaultPageSize + 1]

\* ------------------------------------------------------------------------
\* Claims about the repository load
\* ------------------------------------------------------------------------
\* the pages 1, 2, ..., n
FirstPages(n) == [i \in 1..n |-> i]

\* the first n repositories of the organization, in the server's order
FirstRepositories(n) == [i \in 1..n |-> Repository(i)]

\* the first page of an organization of n repositories that is not full
FirstShortPage(n) == (n \div PerPage) + 1

\* a load has completed and none of its requests failed
LoadSucceeded ==
    /\ catalog.last.op = "loadRepositories"
    /\ catalog.last.failedPage = 0

\* C13: for an organization of fewer repositories than the cap, with every
\* request succeeding, the load asks for pages 1, 2, ... in order, the first
\* page of fewer than 100 items (an empty one included) is the last page
\* asked for, and the catalog holds every repository: 250 repositories take
\* exactly 3 requests.
C13_StopsAtFirstShortPage ==
    catalog.orgSize < MaxItems =>
        /\ catalog.load.pc # "idle" =>
             /\ catalog.load.asked \in {FirstPages(catalog.load.page - 1),
                                        FirstPages(catalog.load.page)}
             /\ Len(catalog.load.asked) <= FirstShortPage(catalog.orgSize)
        /\ LoadSucceeded =>
             /\ catalog.last.asked = FirstPages(FirstShortPage(catalog.orgSize))
             /\ catalog.allRepos = FirstRepositories(catalog.orgSize)
             /\ catalog.orgSize = 250 => Len(catalog.last.asked) = 3

C13_ThreeRequestsFor250 ==
    /\ catalog.orgSize = 250
    /\ LoadSucceeded
    /\ catalog.last.asked = <<1, 2, 3>>
    /\ Len(catalog.allRepos) = 250

\* the most page requests a load can make
MostPageRequests == MaxItems \div PerPage

\* what is left of a load: the requests it can still make, and the answer
\* it is waiting for
Remaining ==
    2 * (MostPageRequests - Len(catalog.load.asked))
    + (IF catalog.load.pc = "page" THEN 1 ELSE 0)

\* C14: a load always terminates and the catalog never holds more than
\* MAX_ITEMS = 5000 items: even when the server answers every request with a
\* full page of 100, no load makes more than 50 page requests. Every request
\* is answered or fails (it is aborted after REQUEST_TIMEOUT at the latest),
\* and every such step ends the load or leaves less of it.
C14_LoadTerminatesWithinCap ==
    /\ [](/\ Len(catalog.allRepos) <= MaxItems
          /\ Len(catalog.load.allRepos) <= MaxItems
          /\ Len(catalog.load.asked) <= MostPageRequests
          /\ Remaining >= 0
          /\ catalog.last.op = "loadRepositories" =>
                Len(catalog.last.asked) <= MostPageRequests)
    /\ [][catalog.load.pc # "idle" =>
            \/ catalog'.load.pc = "idle"
            \/ Remaining' < Remaining]_vars

\* the server had a full page for every request, and the load stopped at the cap
C14_StoppedAtCap ==
    /\ catalog.orgSize > MaxItems
    /\ LoadSucceeded
    /\ catalog.last.asked = FirstPages(MostPageRequests)
    /\ Len(catalog.allRepos) = MaxItems

\* pages 1 .. k-1 of an organization of n repositories, one after the other
RECURSIVE PagesBefore(_, _)
PagesBefore(n, k) ==
    IF k <= 1 THEN <<>>
    ELSE PagesBefore(n, k - 1) \o RepositoriesPage(n, k - 1)

\* C15: when the request for page k fails (an API error, a timeout, a
\* network failure, a missing token), the load stops without asking for page
\* k+1, the catalog is pages 1 .. k-1 in order, nothing accumulated is lost,
\* and no error reaches the caller: nothing is alerted and the table shows
\* the catalog from its first page.
C15_FailedPageKeepsEarlierPages ==
    (catalog.last.op = "loadRepositories" /\ catalog.last.failedPage > 0) =>
        LET k == catalog.last.failedPage
        IN /\ catalog.last.asked \in {FirstPages(k), FirstPages(k - 1)}
           /\ catalog.last.asked = FirstPages(k - 1) => ~hasToken(appState)
           /\ catalog.allRepos = PagesBefore(catalog.orgSize, k)
           /\ catalog.reposPagination.filtered = catalog.allRepos
           /\ catalog.reposPagination.currentPage = 1
           /\ catalog.load.pc = "idle"
           /\ catalog.alerts = 0

\* the third page request failed after two full pages
C15_ThirdPageFailed ==
    /\ catalog.last.op = "loadRepositories"
    /\ catalog.last.failedPage = 3
    /\ catalog.last.asked = <<1, 2, 3>>
    /\ Len(catalog.allRepos) = 2 * PerPage
    /\ catalog.allRepos[2 * PerPage] = Repository(2 * PerPage)

\* ------------------------------------------------------------------------
\* Claims about the property catalog and the repository filter
\* ------------------------------------------------------------------------
\* the names of the built-in example properties
ExampleNames ==
    << <<"e","n","v","i","r","o","n","m","e","n","t">>,
       <<"t","e","a","m">>,
       <<"p","r","i","o","r","i","t","y">>,
       <<"f","r","a","m","e","w","o","r","k">>,
       <<"s","t","a","t","u","s">> >>

SchemaRequestHasFailed ==
    /\ catalog.last.op = "loadCustomProperties"
    /\ catalog.last.failed

\* C16: when the schema request fails, loadCustomProperties does not throw:
\* nothing is alerted, the catalog is the built-in set of 5 example
\* properties, filteredProperties is that catalog, currentPage is 1 and
\* totalPages is computed from it.
C16_FailedSchemaFallsBackToExamples ==
    SchemaRequestHasFailed =>
        /\ catalog.alerts = 0
        /\ catalog.propertiesLoad = "idle"
        /\ Len(catalog.allProperties) = 5
        /\ \A i \in 1..5 : catalog.allProperties[i].property_name = ExampleNames[i]
        /\ catalog.propertiesPagination.filtered = catalog.allProperties
        /\ catalog.propertiesPagination.currentPage = 1
        /\ catalog.propertiesPagination.totalPages = 1
        /\ catalog.propertiesTbody = catalog.allProperties

\* the request was sent with a token and failed
C16_SchemaRefused ==
    /\ SchemaRequestHasFailed
    /\ hasToken(appState)
    /\ Len(catalog.allProperties) = 5

\* the step is a run of the repository search listener
IsFilterReposCall ==
    /\ events' = events + 1
    /\ catalog'.last.op = "filterRepos"

\* the repositories of the catalog that a term matches
NumberOfLocalMatches(searchTerm) ==
    Cardinality({i \in 1..Len(catalog.allRepos) :
                    matchesTerm(catalog.allRepos[i].name,
                                catalog.allRepos[i].description, searchTerm)})

\* C17: filterRepos asks for the remote search (by a cache lookup or by a
\* request) exactly when the search term is not empty, has at least 2
\* characters, and matches fewer than 10 repositories of the catalog; a term
\* of one character never asks for it, nor does a term with 10 local matches
\* or more.
C17_RemoteSearchOnlyForFewMatches ==
    [][IsFilterReposCall =>
        LET searchTerm == catalog'.reposPagination.searchTerm
            asked == catalog'.last.remote # "none"
            sent == Len(catalog'.searches) = Len(catalog.searches) + 1
        IN /\ asked <=> /\ searchTerm # <<>>
                        /\ Len(searchTerm) >= 2
                        /\ NumberOfLocalMatches(searchTerm) < 10
           /\ sent => asked
           /\ ~asked => catalog'.cache = catalog.cache
      ]_vars

\* a term of four characters with a few local matches went to the server
C17_FewMatchesAsked ==
    /\ catalog.last.op = "filterRepos"
    /\ catalog.last.remote = "asked"
    /\ Len(catalog.reposPagination.searchTerm) = 4
    /\ Len(catalog.last.localMatches) \in 1..9
    /\ Len(catalog.searches) > 0

\* filterRepos has completed with the results of the remote search
RemoteSearchSucceeded ==
    /\ catalog.last.op = "filterRepos"
    /\ catalog.last.remote \in {"request", "cache"}

NamesOf(repos) == {repos[i].name : i \in 1..Len(repos)}

\* the remote results that are new: not a local match, and not a repetition
\* of an earlier remote result
NewRemoteResults(localMatches, apiMatches) ==
    {j \in 1..Len(apiMatches) :
        /\ apiMatches[j].name \notin NamesOf(localMatches)
        /\ \A k \in 1..(j - 1) : apiMatches[k].name # apiMatches[j].name}

\* C18: when the remote search succeeds, the filtered list is the local
\* matches, in catalog order, followed by the remote results whose name is
\* not in the list yet: every local match is kept, and no name occurs twice.
C18_LocalMatchesThenNewRemoteResults ==
    /\ [](RemoteSearchSucceeded =>
            LET filtered == catalog.reposPagination.filtered
                localMatches == catalog.last.localMatches
                apiMatches == catalog.last.apiMatches
                new == NewRemoteResults(localMatches, apiMatches)
            IN /\ Len(filtered) = Len(localMatches) + Cardinality(new)
               /\ SubSeq(filtered, 1, Len(localMatches)) = localMatches
               /\ \A j \in new :
                    filtered[Len(localMatches) + Cardinality({k \in new : k <= j})]
                        = apiMatches[j]
               /\ \A i, j \in 1..Len(filtered) :
                    filtered[i].name = filtered[j].name => i = j
               /\ catalog.reposPagination.currentPage = 1)
    /\ [][(IsFilterReposCall /\ catalog'.reposPagination.searchTerm # <<>>) =>
            catalog'.last.localMatches
              = SelectSeq(catalog.allRepos,
                          LAMBDA repo : matchesTerm(repo.name, repo.description,
                                                    catalog'.reposPagination.searchTerm))
       ]_vars

\* the server answered with a local match and, twice, a repository the
\* catalog does not hold: one repository was added after the local matches
C18_OneRemoteResultAdded ==
    /\ RemoteSearchSucceeded
    /\ catalog.last.remote = "request"
    /\ Len(catalog.last.localMatches) > 1
    /\ Len(catalog.last.apiMatches) = 3
    /\ Len(catalog.reposPagination.filtered) = Len(catalog.last.localMatches) + 1

\* filterRepos has completed after the remote search failed
RemoteSearchFailed ==
    /\ catalog.last.op = "filterRepos"
    /\ catalog.last.remote = "failed"

\* C19: when the remote search fails (an HTTP error, a timeout, a network
\* failure, a missing token), filterRepos completes without raising or
\* alerting: the filtered list is exactly the local matches, currentPage is
\* 1 again, and totalPages is computed from the local matches.
C19_FailedSearchKeepsLocalMatches ==
    RemoteSearchFailed =>
        LET p == catalog.reposPagination
        IN /\ catalog.alerts = 0
           /\ p.filtered = catalog.last.localMatches
           /\ p.currentPage = 1
           /\ p.totalPages * p.itemsPerPage >= Len(p.filtered)
           /\ (p.totalPages - 1) * p.itemsPerPage < Len(p.filtered)
           /\ catalog.reposTbody = PageOf(p.filtered, 1, p.itemsPerPage)

\* a request for the search was sent and failed, and the table shows the
\* local matches
C19_SearchRequestRefused ==
    /\ RemoteSearchFailed
    /\ hasToken(appState)
    /\ Len(catalog.last.localMatches) > 1
    /\ catalog.reposTbody = catalog.last.localMatches

\* ------------------------------------------------------------------------
\* Claims about going back through the history
\* ------------------------------------------------------------------------
\* the wizard went 1 -> 2 -> 3, each stage entered once, and the history
\* holds the three entries of these stages
WentOneTwoThree ==
    /\ ~firstEntry.strayed
    /\ Len(firstEntry.walk) = 3
    /\ Len(history) = 3
    /\ \A i \in 1..3 : history[i].state.step = i

\* the step is a browser back event
IsBack ==
    /\ historyIndex' = historyIndex - 1
    /\ lastEvent'.kind = "popState"

\* C20: after the wizard went 1 -> 2 -> 3, each of two successive back
\* events makes the restored stage (2, then 1) the current one, and the
\* organization, token and selection fields are again what they were when
\* that stage was first entered.
C20_BackRestoresFirstEntry ==
    [][(WentOneTwoThree /\ IsBack) =>
        /\ appState'.currentStep = historyIndex'
        /\ SessionFields(appState') = firstEntry.walk[historyIndex']
      ]_vars

\* back on stage 1 after stage 3 was entered with an organization and a
\* token; the fields of stage 2 are empty, as the back event that restored
\* stage 2 left them
C20_BackOnStageOne ==
    /\ WentOneTwoThree
    /\ lastEvent.kind = "popState"
    /\ historyIndex = 1
    /\ appState.currentStep = 1
    /\ history[3].state.appState.orgName # <<>>
    /\ history[3].state.appState.authToken # <<>>
    /\ appState.orgName = <<>>
    /\ appState.authToken = <<>>
    /\ dom.orgNameInput = <<>>
    /\ dom.authTokenInput = <<>>

\* ------------------------------------------------------------------------
\* History entries written by stage entries
\* ------------------------------------------------------------------------
\* the event handled by this step calls goToStep(step), or at load
\* updateHistoryState(1), outside a popstate or hashchange listener
NonHistoryEntry(step) ==
    LET e == lastEvent'
    IN \/ e.kind \in {"load", "autoAdvance", "backButton"} /\ e.target = step
       \/ e.kind \in {"stepClick", "keyPrevious", "keyNext"} /\ e.target = step /\ e.allowed
       \/ /\ e.kind = "authNext" /\ step = 3
          /\ isValidOrgName(appState.orgName) /\ isValidToken(appState.authToken)
       \/ e.kind = "reposNext" /\ step = 4 /\ hasValidSelection(appState)

\* the event handled by this step calls goToStep from the popstate or the
\* hashchange listener
HistoryEntry ==
    \/ lastEvent'.kind = "popState"
    \/ lastEvent'.kind = "hashChange" /\ lastEvent'.allowed

\* { step, appState: { ...appState } } taken when goToStep(step) has set
\* currentStep, with the fragment of its URL
SnapshotEntry(app, step) ==
    [state |-> [step |-> step, appState |-> [app EXCEPT !.currentStep = step]],
     hash |-> step]

\* C21: a stage entry that does not come from history navigation replaces
\* the current history entry when the stage is 1 and pushes exactly one
\* entry when the stage is 2, 3 or 4, in both cases with a snapshot of the
\* session as it is at that moment; a stage entry made by the popstate or
\* the hashchange listener leaves the list of history entries as it is.
C21_StageEntryWritesHistory ==
    [][/\ NonHistoryEntry(1) =>
            /\ history' = [history EXCEPT ![historyIndex] = SnapshotEntry(appState, 1)]
            /\ historyIndex' = historyIndex
       /\ \A step \in 2..4 : NonHistoryEntry(step) =>
            /\ history' = Append(SubSeq(history, 1, historyIndex),
                                 SnapshotEntry(appState, step))
            /\ historyIndex' = historyIndex + 1
       /\ HistoryEntry => history' = history
      ]_vars

\* stages 2 and 3 were pushed and a back event has restored stage 2
C21_PushedTwiceThenBack ==
    /\ lastEvent.kind = "popState"
    /\ Len(history) = 3
    /\ historyIndex = 2
    /\ history[1].state.step = 1
    /\ history[2].state.step = 2
    /\ history[3].state.step = 3
    /\ appState.currentStep = 2

\* ------------------------------------------------------------------------
\* The automatic advance after a use-case selection
\* ------------------------------------------------------------------------
\* the condition of selectUseCase for a click, which no history navigation
\* is handling
FreshSelection(app) ==
    app.currentStep = 1 /\ app.orgName = <<>> /\ app.authToken = <<>>

\* C22: a use-case selection records the use case and changes nothing else
\* of the session; it schedules one automatic advance to stage 2 if and
\* only if currentStep is 1 and organization and token are both empty, and
\* schedules none in every other case.
C22_AdvanceScheduledIffFreshSelection ==
    [][lastEvent'.kind = "selectUseCase" =>
        /\ appState'.selectedUseCase \in ClickedUseCases
        /\ appState' = [appState EXCEPT !.selectedUseCase = appState'.selectedUseCase]
        /\ autoAdvanceTimers' =
              IF FreshSelection(appState) THEN autoAdvanceTimers + 1
              ELSE autoAdvanceTimers
        /\ history' = history /\ historyIndex' = historyIndex
      ]_vars

\* a use case was selected on stage 1 of a session that holds an
\* organization: no advance is scheduled
C22_SelectedWithOrganization ==
    /\ lastEvent.kind = "selectUseCase"
    /\ appState.currentStep = 1
    /\ appState.orgName # <<>>
    /\ appState.selectedUseCase # Null
    /\ autoAdvanceTimers = 0

\* ------------------------------------------------------------------------
\* Repeated requests for one stage
\* ------------------------------------------------------------------------
\* C23: two requests for the same stage in rapid succession push at most
\* one history entry for it: when two use-case selections were made within
\* the delay of the automatic advance, the second advance finds stage 2
\* already entered by the first and writes no further history entry.
C23_SecondAdvancePushesNothing ==
    [][(/\ lastEvent.kind = "autoAdvance"
        /\ lastEvent'.kind = "autoAdvance"
        /\ appState.currentStep = 2)
       => history' = history /\ historyIndex' = historyIndex
      ]_vars

\* two automatic advances in succession have left two entries for stage 2
C23_TwoEntriesForStageTwo ==
    /\ lastEvent.kind = "autoAdvance"
    /\ historyIndex = 3
    /\ history[2].state.step = 2
    /\ history[3].state.step = 2
    /\ history[2].state.appState = history[3].state.appState

\* ------------------------------------------------------------------------
\* Runs without a target
\* ------------------------------------------------------------------------
\* a run whose preconditions held has ended with no target resolved: with
\* method "properties" and no repository selected, or with method "all"
\* and no repository listed
ResolvedNoTarget ==
    /\ run.pc = "done"
    /\ UnmetPreconditions = {}
    /\ \/ appState.selectionMethod = "properties" /\ appState.selectedRepos = <<>>
       \/ appState.selectionMethod = "all" /\ run.targetRepos = <<>>

NoTargetMessages ==
    {"Workflow execution failed: No repositories found to process."}
    \cup {"Workflow execution failed: Failed to fetch organization repositories: "
            \o httpMessage(status) : status \in IssueFailures}

\* C24: a run whose resolved target set is empty (method "all" with an
\* organization that lists no repository, method "properties" with no
\* repository selected) ends in the error branch with one alert for the
\* user, and has sent no issue-creation request and processed no target.
C24_EmptyTargetSetEndsWithError ==
    ResolvedNoTarget =>
        /\ run.outcome = "error"
        /\ Len(shown) = 1
        /\ shown[1].kind = "alert"
        /\ shown[1].message \in NoTargetMessages
        /\ appState.selectionMethod = "properties" =>
                /\ shown[1].message = "Workflow execution failed: No repositories found to process."
                /\ run.netLog = <<>>
        /\ CreateIssueRequests = <<>>
        /\ run.calls = <<>>
        /\ run.results = <<>>

\* the listing of method "all" has answered with no repository
C24_OrganizationWithoutRepositories ==
    /\ ResolvedNoTarget
    /\ appState.selectionMethod = "all"
    /\ Len(run.netLog) = 1
    /\ run.netLog[1].kind = "listRepos"
    /\ run.pending = 0
    /\ shown[1].message = "Workflow execution failed: No repositories found to process."

\* ------------------------------------------------------------------------
\* The message of a run aborted by an API failure
\* ------------------------------------------------------------------------
\* what the catch block of executeWorkflow shows for an APIError of a status
ClassifiedMessage(status) ==
    "Workflow execution failed: " \o userMessage(APIError(httpMessage(status), status))

\* C25: a run aborted by an API failure shows the message of the status of
\* that failure (401 authentication, 403 permissions, 404 not found, 408
\* timeout, generic otherwise), in particular when the repository listing
\* of method "all" failed with that status.
C25_ListingFailureClassifiedByStatus ==
    (run.pc = "done" /\ run.listingStatus # 0) =>
        /\ Len(shown) = 1
        /\ shown[1].message = ClassifiedMessage(run.listingStatus)

\* the repository listing was refused with status 403, and the alert shows
\* the message of the wrapped error
C25_ListingRefused ==
    /\ run.pc = "done"
    /\ run.outcome = "error"
    /\ run.listingStatus = 403
    /\ shown[1].message =
          "Workflow execution failed: Failed to fetch organization repositories: HTTP 403"

\* ------------------------------------------------------------------------
\* Requests under the request timeout
\* ------------------------------------------------------------------------
\* the requests sent through APIUtils.secureFetch, which aborts them after
\* REQUEST_TIMEOUT; the issue lookup, the suggested-actors query and the
\* assignment mutation are sent with fetch
TimedRequests == {"listRepos", "createIssue"}

\* a request sent through secureFetch is answered, refused or aborted
TimedCallEnds ==
    \/ \E repos \in TargetLists : OrgReposListed(repos)
    \/ \E status \in IssueFailures : OrgReposFailed(status)
    \/ IssueCreated
    \/ \E status \in IssueFailures : IssueCreationFailed(status)

\* the runs in which every timed call ends and every delay elapses; a
\* request sent with fetch ends only if the server answers it
SpecRunFair ==
    SpecRun /\ WF_vars(TimedCallEnds) /\ WF_vars(RateLimitDelayElapsed)

\* C26: every request of a run is under the request timeout, so a started
\* run eventually completes its whole target list, even if the server
\* never answers some request.
C26_StartedRunCompletes ==
    (run.pc \notin {"idle", "done"}) ~>
        (run.pc = "done" /\ Len(run.results) = Len(run.targetRepos))

\* the issue lookup, sent with fetch, is in flight
C26_IssueLookupInFlight ==
    /\ run.pc = "getIssue"
    /\ run.pending = 1
    /\ run.netLog[Len(run.netLog)].kind = "getIssue"
    /\ run.netLog[Len(run.netLog)].kind \notin TimedRequests

\* ------------------------------------------------------------------------
\* APIUtils: githubAPI and githubGraphQL
\* ------------------------------------------------------------------------
NoError == [name |-> "", status |-> 0, message |-> ""]

\* the endpoints githubAPI is called with, and the documents githubGraphQL
\* may be called with
ApiEndpoints == {"listRepos", "schema", "search", "createIssue"}

GraphQLDocuments == {"query", "mutation"}

\* how a request ends: secureFetch returns the response, or throws for a
\* response that is not ok, an abort, or a network failure; a GraphQL
\* response may carry errors
ApiOutcomes == {"ok", "http", "timeout", "network", "errors"}

ApiCall(fn, what, state, error) ==
    [fn |-> fn, what |-> what, state |-> state, error |-> error]

\* githubAPI sending the request whatever the token is
githubAPIUnchecked(w, endpoint) ==
    [Request(w, endpoint, <<>>) EXCEPT
        !.run.api = Append(@, ApiCall("githubAPI", endpoint, "pending", NoError))]

\* githubAPI up to its await of secureFetch
githubAPI(w, endpoint) ==
    IF w.app.authToken = <<>>
    THEN [w EXCEPT !.run.api = Append(@, ApiCall("githubAPI", endpoint, "thrown",
                                    APIError("Authentication token required", 401)))]
    ELSE [Request(w, endpoint, <<>>) EXCEPT
            !.run.api = Append(@, ApiCall("githubAPI", endpoint, "pending", NoError))]

\* githubGraphQL up to its await of secureFetch
githubGraphQL(w, query) ==
    IF w.app.authToken = <<>>
    THEN [w EXCEPT !.run.api = Append(@, ApiCall("githubGraphQL", query, "thrown",
                                    APIError("Authentication token required", 401)))]
    ELSE [Request(w, "graphql", <<>>) EXCEPT
            !.run.api = Append(@, ApiCall("githubGraphQL", query, "pending", NoError))]

\* the rest of the call k once secureFetch has returned or thrown
apiAnswered(w, k, outcome) ==
    LET call == w.run.api[k]
        ended == CASE outcome = "ok" -> [call EXCEPT !.state = "returned"]
                   [] outcome = "http" ->
                        [call EXCEPT !.state = "thrown", !.error = APIError(httpMessage(403), 403)]
                   [] outcome = "timeout" ->
                        [call EXCEPT !.state = "thrown", !.error = APIError("Request timeout", 408)]
                   [] outcome = "network" ->
                        [call EXCEPT !.state = "thrown", !.error = APIError("Failed to fetch", 0)]
                   [] outcome = "errors" ->
                        [call EXCEPT !.state = "thrown", !.error = APIError("GraphQL Error: ", 400)]
    IN [Response(w) EXCEPT !.run.api[k] = ended]

GithubAPI(endpoint) ==
    /\ Len(run.api) < MaxApiCalls
    /\ CommitRun(githubAPI(RunWorld, endpoint))

GithubGraphQL(query) ==
    /\ Len(run.api) < MaxApiCalls
    /\ CommitRun(githubGraphQL(RunWorld, query))

ApiAnswered(k, outcome) ==
    /\ k \in 1..Len(run.api)
    /\ run.api[k].state = "pending"
    /\ outcome = "errors" => run.api[k].fn = "githubGraphQL"
    /\ CommitRun(apiAnswered(RunWorld, k, outcome))

\* a session with or without a token; no call has been made
InitApi ==
    \E authToken \in {<<>>, TokenOfLength(TokenMinLength)} :
        LET app == [NewAppState EXCEPT !.currentStep = 3,
                                       !.selectedUseCase = "tests",
                                       !.orgName = <<"a", "-", "b">>,
                                       !.authToken = authToken]
        IN /\ appState = app
           /\ dom = [NewDom EXCEPT !.orgNameInput = app.orgName,
                                   !.authTokenInput = authToken]
           /\ history = <<[state |-> [step |-> 3, appState |-> app], hash |-> 3]>>
           /\ historyIndex = 1
           /\ initialized = TRUE
           /\ autoAdvanceTimers = 0
           /\ promptLoads = <<>>
           /\ pendingHashChange = 0
           /\ shown = <<>>
           /\ lastEvent = Event("none", 0, TRUE)
           /\ lastEntry = [step |-> 3, allowed |-> canNavigateToStep(app, 3)]
           /\ events = 0
           /\ run = NoRun
           /\ firstEntry = NoEntries
           /\ catalog = NewCatalog

NextApi ==
    \/ \E endpoint \in ApiEndpoints : GithubAPI(endpoint)
    \/ \E query \in GraphQLDocuments : GithubGraphQL(query)
    \/ \E k \in 1..MaxApiCalls, outcome \in ApiOutcomes : ApiAnswered(k, outcome)

\* the calls of the two request functions, whoever makes them
SpecApi == InitApi /\ [][NextApi]_vars

\* this step is a call of githubAPI or githubGraphQL
IsApiCall == Len(run'.api) = Len(run.api) + 1

\* C27: when the token of the session is empty, a call of githubAPI or of
\* githubGraphQL throws an APIError of status 401 and sends no request;
\* with a token the call sends exactly one request and throws nothing
\* before the answer.
C27_NoTokenNoRequest ==
    [][IsApiCall =>
        LET call == run'.api[Len(run'.api)]
        IN /\ call.fn \in {"githubAPI", "githubGraphQL"}
           /\ appState.authToken = <<>> =>
                /\ call.state = "thrown"
                /\ call.error.name = "APIError"
                /\ call.error.status = 401
                /\ run'.netLog = run.netLog
                /\ run'.pending = run.pending
           /\ appState.authToken # <<>> =>
                /\ call.state = "pending"
                /\ Len(run'.netLog) = Len(run.netLog) + 1
                /\ run'.pending = run.pending + 1
      ]_vars

\* both functions were called without a token
C27_BothCalledWithoutToken ==
    /\ appState.authToken = <<>>
    /\ Len(run.api) = 2
    /\ run.api[1].fn = "githubAPI"
    /\ run.api[2].fn = "githubGraphQL"
    /\ run.api[2].error.status = 401
    /\ run.netLog = <<>>

\* ------------------------------------------------------------------------
\* isValidOrgName over all short names
\* ------------------------------------------------------------------------
\* one letter of each case, a digit, the hyphen, the space and the
\* characters sanitizeString strips
NameAlphabet == {"a", "Z", "7", "-", " "} \cup StrippedChars

RECURSIVE NamesOfLength(_)
NamesOfLength(n) ==
    IF n = 0 THEN {<<>>}
    ELSE {Append(s, c) : s \in NamesOfLength(n - 1), c \in NameAlphabet}

OrgNames == UNION {NamesOfLength(n) : n \in 0..MaxNameLength}

\* ^[A-Za-z0-9]([A-Za-z0-9-]*[A-Za-z0-9])?$
MatchesNamePattern(s) ==
    /\ Len(s) >= 1
    /\ Head(s) \in AlphaNum
    /\ LET tail == Tail(s)
       IN \/ tail = <<>>
          \/ /\ tail[Len(tail)] \in AlphaNum
             /\ \A i \in 1..(Len(tail) - 1) : tail[i] \in AlphaNum \cup {"-"}

\* ValidationUtils.isValidOrgName is called with the text of the field
ApplyIsValidOrgName ==
    /\ lastEvent.kind = "none"
    /\ lastEvent' = Event("isValidOrgName", 0, isValidOrgName(dom.orgNameInput))
    /\ UNCHANGED <<appState, dom, history, historyIndex, initialized,
                   autoAdvanceTimers, promptLoads, pendingHashChange, shown,
                   lastEntry, events, run, firstEntry, catalog>>

\* the organization field holds any name of OrgNames
InitNames ==
    /\ appState = [NewAppState EXCEPT !.currentStep = 2, !.selectedUseCase = "tests"]
    /\ dom \in {[NewDom EXCEPT !.orgNameInput = n] : n \in OrgNames}
    /\ history = <<[state |-> [step |-> 2, appState |-> appState], hash |-> 2]>>
    /\ historyIndex = 1
    /\ initialized = TRUE
    /\ autoAdvanceTimers = 0
    /\ promptLoads = <<>>
    /\ pendingHashChange = 0
    /\ shown = <<>>
    /\ lastEvent = Event("none", 0, TRUE)
    /\ lastEntry = [step |-> 2, allowed |-> TRUE]
    /\ events = 0
    /\ run = NoRun
    /\ firstEntry = NoEntries
    /\ catalog = NewCatalog

NextNames == ApplyIsValidOrgName

SpecNames == InitNames /\ [][NextNames]_vars

\* C28 as amended: isValidOrgName(n) is true if and only if n, trimmed
\* and then sanitized, matches ^[A-Za-z0-9]([A-Za-z0-9-]*[A-Za-z0-9])?$.
C28_ValidIffTrimmedThenSanitizedMatches ==
    lastEvent.kind = "isValidOrgName" =>
        (lastEvent.allowed <=> MatchesNamePattern(sanitizeString(trim(dom.orgNameInput))))

\* C28: isValidOrgName(n) is true if and only if n, sanitized and trimmed,
\* matches the pattern, whichever of trimming and sanitization is applied
\* first.
C28_ValidWhicheverOrder ==
    lastEvent.kind = "isValidOrgName" =>
        /\ lastEvent.allowed <=> MatchesNamePattern(sanitizeString(trim(dom.orgNameInput)))
        /\ lastEvent.allowed <=> MatchesNamePattern(trim(sanitizeString(dom.orgNameInput)))

\* a name that is refused, and that would match had it been sanitized
\* before it was trimmed
C28_RefusedBecauseTrimmedFirst ==
    /\ lastEvent.kind = "isValidOrgName"
    /\ dom.orgNameInput = <<"<", " ", "a">>
    /\ ~lastEvent.allowed
    /\ MatchesNamePattern(trim(sanitizeString(dom.orgNameInput)))

\* ------------------------------------------------------------------------
\* The organization and the token the session holds
\* ------------------------------------------------------------------------
\* C29: in every reachable state the orgName of the session is empty or
\* itself matches the organization-name pattern (no surrounding
\* whitespace, none of the stripped characters), and its authToken is
\* empty or matches the token pattern; also after input edits and after a
\* restoration from the history.
C29_SessionHoldsOnlyMatchingValues ==
    /\ appState.orgName = <<>> \/ MatchesOrgPattern(appState.orgName)
    /\ appState.authToken = <<>> \/ MatchesTokenPattern(appState.authToken)

\* the session holds an organization name that starts with a space
C29_NameWithLeadingSpaceStored ==
    /\ lastEvent.kind = "validateInputs"
    /\ dom.orgNameInput = <<"<", " ", "a">>
    /\ appState.orgName = <<" ", "a">>
    /\ ~MatchesOrgPattern(appState.orgName)

\* ------------------------------------------------------------------------
\* What a run writes into the session
\* ------------------------------------------------------------------------
\* C30: no step of a workflow run, from the click on Execute to its end,
\* changes a field of the session other than promptContent, the catalogs
\* or the pagination views, whether the run succeeds, fails for some or
\* for all targets, or is refused by a precondition; promptContent changes
\* only to the sanitized text of the prompt field.
C30_RunWritesOnlyPromptContent ==
    [][/\ appState' = [appState EXCEPT !.promptContent = appState'.promptContent]
       /\ \/ appState'.promptContent = appState.promptContent
          \/ appState'.promptContent = sanitizeString(trim(dom.promptContentTextarea))
       /\ catalog' = catalog
      ]_vars

\* a run of three selected targets has ended with successes and failures,
\* and the session differs from the one the run started from in
\* promptContent alone
C30_PartlyFailedRunKeptSession ==
    /\ run.pc = "done"
    /\ run.successCount > 0
    /\ run.failureCount > 0
    /\ appState.selectionMethod = "selected"
    /\ Len(appState.selectedRepos) = 3
    /\ appState.promptContent = <<"p">>
    /\ history[1].state.appState.promptContent = <<>>
    /\ appState = [history[1].state.appState EXCEPT !.promptContent = <<"p">>]

\* ------------------------------------------------------------------------
\* The selections of stage 3
\* ------------------------------------------------------------------------
\* updatePropertyValue adding the property when it is not selected
updatePropertyValueAdding(w, propertyName, value) ==
    LET index == PropertyIndex(w.app.selectedProperties, propertyName)
    IN IF index # 0
       THEN [w EXCEPT !.app.selectedProperties[index].value = value]
       ELSE [w EXCEPT !.app.selectedProperties =
                Append(@, [propertyName |-> propertyName, value |-> value])]

updatePropertyValue(w, propertyName, value) ==
    LET index == PropertyIndex(w.app.selectedProperties, propertyName)
    IN IF index # 0
       THEN [w EXCEPT !.app.selectedProperties[index].value = value]
       ELSE w

\* the function is called for a property of the table with the text of
\* its value field
UpdatePropertyValue(propertyName, value) ==
    /\ initialized
    /\ appState.currentStep = 3 /\ appState.selectionMethod = "properties"
    /\ Commit(updatePropertyValue(World, propertyName, value))
    /\ lastEvent' = Event("updatePropertyValue", 0,
                          PropertyIndex(appState.selectedProperties, propertyName) # 0)
    /\ UNCHANGED initialized

\* the rows of the two tables, and the texts typed as a value
SelectionRepos == {RepoName(1), RepoName(2), RepoName(3)}

SelectionProperties == {"environment", "team"}

PropertyValues == {<<>>, <<"d", "e", "v">>}

\* a session that has reached stage 3 with nothing selected
InitSelection ==
    LET app == [NewAppState EXCEPT !.currentStep = 3,
                                   !.selectedUseCase = "tests",
                                   !.orgName = <<"a", "-", "b">>,
                                   !.authToken = TokenOfLength(TokenMinLength),
                                   !.selectionMethod = "selected"]
    IN /\ appState = app
       /\ dom = [orgNameInput |-> app.orgName, authTokenInput |-> app.authToken,
                 selectionDropdown |-> "selected", promptContentTextarea |-> <<>>]
       /\ history = <<[state |-> [step |-> 3, appState |-> app], hash |-> 3]>>
       /\ historyIndex = 1
       /\ initialized = TRUE
       /\ autoAdvanceTimers = 0
       /\ promptLoads = <<>>
       /\ pendingHashChange = 0
       /\ shown = <<>>
       /\ lastEvent = Event("none", 0, TRUE)
       /\ lastEntry = [step |-> 3, allowed |-> TRUE]
       /\ events = 0
       /\ run = NoRun
       /\ firstEntry = NoEntries
       /\ catalog = NewCatalog

NextSelection ==
    \/ \E method \in {"selected", "properties"} : SelectionMethodChange(method)
    \/ \E repoName \in SelectionRepos : ToggleRepoSelection(repoName)
    \/ \E repoName \in SelectionRepos : RemoveRepoSelection(repoName)
    \/ \E propertyName \in SelectionProperties : TogglePropertySelection(propertyName)
    \/ \E propertyName \in SelectionProperties : RemovePropertySelection(propertyName)
    \/ \E propertyName \in SelectionProperties, value \in PropertyValues :
            UpdatePropertyValue(propertyName, value)

\* the selection handlers of stage 3 in any order
SpecSelection == InitSelection /\ [][NextSelection]_vars

PropertyNamesOf(selectedProperties) ==
    [i \in 1..Len(selectedProperties) |-> selectedProperties[i].propertyName]

NoDuplicates(seq) == \A i, j \in 1..Len(seq) : seq[i] = seq[j] => i = j

\* C31: after any sequence of the five selection calls no propertyName
\* occurs twice in selectedProperties and no repository name twice in
\* selectedRepos; updatePropertyValue leaves the selected names as they
\* are, changes at most the value of the property it is called for, and
\* never adds a property.
C31_SelectionsHoldNoDuplicates ==
    [][/\ NoDuplicates(appState'.selectedRepos)
       /\ NoDuplicates(PropertyNamesOf(appState'.selectedProperties))
       /\ lastEvent'.kind = "updatePropertyValue" =>
            /\ appState'.selectedRepos = appState.selectedRepos
            /\ PropertyNamesOf(appState'.selectedProperties)
                  = PropertyNamesOf(appState.selectedProperties)
            /\ Cardinality({i \in 1..Len(appState.selectedProperties) :
                    appState'.selectedProperties[i] # appState.selectedProperties[i]}) <= 1
      ]_vars

\* updatePropertyValue was called for a property that is not selected,
\* while another one is: nothing was added
C31_ValueOfUnselectedProperty ==
    /\ lastEvent.kind = "updatePropertyValue"
    /\ ~lastEvent.allowed
    /\ Len(appState.selectedProperties) = 1
    /\ appState.selectedProperties[1] = [propertyName |-> "team", value |-> <<"d", "e", "v">>]
    /\ Len(appState.selectedRepos) = 2

\* ------------------------------------------------------------------------
\* findCopilotBot page by page
\* ------------------------------------------------------------------------
\* return null
NoNode == [id |-> 0, login |-> Null]

\* the login findCopilotBot looks for, and one that differs in case only
BotLogin == "copilot-swe-agent"

Logins == {BotLogin, "Copilot-SWE-Agent"}

RECURSIVE SeqsOfLength(_, _)
SeqsOfLength(S, n) ==
    IF n = 0 THEN {<<>>}
    ELSE {Append(s, x) : s \in SeqsOfLength(S, n - 1), x \in S}

\* the logins of the nodes of one page
PageContents == UNION {SeqsOfLength(Logins, n) : n \in 0..MaxNodes}

\* the pages the server holds for a repository: page k is returned for the
\* cursor of page k - 1 (null, written 0, for the first), holds its own
\* endCursor and tells whether a page follows
PageChain(contents) ==
    [k \in 1..Len(contents) |->
        [nodes |-> [i \in 1..Len(contents[k]) |-> [id |-> 10 * k + i, login |-> contents[k][i]]],
         hasNextPage |-> k < Len(contents),
         endCursor |-> k]]

PageChains ==
    {PageChain(contents) : contents \in UNION {SeqsOfLength(PageContents, n) : n \in 1..MaxChain}}

\* the positions of the nodes of a page whose login is in a set
NodesWithLogin(page, logins) == {i \in 1..Len(page.nodes) : page.nodes[i].login \in logins}

FirstOf(positions) == CHOOSE i \in positions : \A j \in positions : i <= j

\* the fetch of one iteration, with the cursor as variable
requestSuggestedActors(s, endCursor) ==
    [s EXCEPT !.pc = "waiting", !.asked = Append(@, endCursor)]

\* the loop body after the fetch, taking any login that spells the name
suggestedActorsReceivedAnyCase(s, page) ==
    IF NodesWithLogin(page, Logins) # {}
    THEN [s EXCEPT !.pc = "returned", !.result = page.nodes[FirstOf(NodesWithLogin(page, Logins))]]
    ELSE IF page.hasNextPage THEN requestSuggestedActors(s, page.endCursor)
    ELSE [s EXCEPT !.pc = "returned", !.result = NoNode]

\* the loop body after the fetch
suggestedActorsReceived(s, page) ==
    IF NodesWithLogin(page, {BotLogin}) # {}
    THEN [s EXCEPT !.pc = "returned", !.result = page.nodes[FirstOf(NodesWithLogin(page, {BotLogin}))]]
    ELSE IF page.hasNextPage THEN requestSuggestedActors(s, page.endCursor)
    ELSE [s EXCEPT !.pc = "returned", !.result = NoNode]

SearchStep(s) ==
    /\ run' = [run EXCEPT !.search = s]
    /\ UNCHANGED <<appState, dom, history, historyIndex, initialized,
                   autoAdvanceTimers, promptLoads, pendingHashChange, shown,
                   lastEvent, lastEntry, events, firstEntry, catalog>>

\* findCopilotBot is called: endCursor is null
FindCopilotBot ==
    /\ run.search.pc = "idle"
    /\ SearchStep(requestSuggestedActors(run.search, 0))

\* the server answers with the page behind the cursor
SuggestedActorsReceived ==
    /\ run.search.pc = "waiting"
    /\ LET endCursor == run.search.asked[Len(run.search.asked)]
       IN SearchStep(suggestedActorsReceived(run.search, run.search.chain[endCursor + 1]))

\* the response is not ok or carries errors: findCopilotBot throws
SuggestedActorsRefused ==
    /\ run.search.pc = "waiting"
    /\ SearchStep([run.search EXCEPT !.pc = "thrown"])

\* a session on stage 4 and any chain of pages on the server
InitBot ==
    LET app == [NewAppState EXCEPT !.currentStep = 4,
                                   !.selectedUseCase = "tests",
                                   !.orgName = <<"a", "-", "b">>,
                                   !.authToken = TokenOfLength(TokenMinLength)]
    IN /\ appState = app
       /\ dom = [NewDom EXCEPT !.orgNameInput = app.orgName,
                               !.authTokenInput = app.authToken]
       /\ history = <<[state |-> [step |-> 4, appState |-> app], hash |-> 4]>>
       /\ historyIndex = 1
       /\ initialized = TRUE
       /\ autoAdvanceTimers = 0
       /\ promptLoads = <<>>
       /\ pendingHashChange = 0
       /\ shown = <<>>
       /\ lastEvent = Event("none", 0, TRUE)
       /\ lastEntry = [step |-> 4, allowed |-> TRUE]
       /\ events = 0
       /\ run \in {[NoRun EXCEPT !.search.chain = chain] : chain \in PageChains}
       /\ firstEntry = NoEntries
       /\ catalog = NewCatalog

NextBot ==
    \/ FindCopilotBot
    \/ SuggestedActorsReceived
    \/ SuggestedActorsRefused

SpecBot == InitBot /\ [][NextBot]_vars

HasBot(page) == \E i \in 1..Len(page.nodes) : page.nodes[i].login = BotLogin

\* C32: findCopilotBot asks for the pages in order, with a null cursor
\* first and the endCursor of the page before afterwards; it asks for a
\* further page only when the last one held no node with the login
\* copilot-swe-agent and had hasNextPage true; it returns the first such
\* node of the first page that holds one, and null after the first page
\* without one whose hasNextPage is false; it never asks for more pages
\* than the chain has.
C32_PagesFollowedUntilFoundOrExhausted ==
    LET s == run.search
        n == Len(s.asked)
    IN /\ n <= Len(s.chain)
       /\ n >= 1 => s.asked[1] = 0
       /\ \A k \in 1..(n - 1) :
            /\ s.asked[k + 1] = s.chain[k].endCursor
            /\ ~HasBot(s.chain[k])
            /\ s.chain[k].hasNextPage
       /\ s.pc = "returned" =>
            IF HasBot(s.chain[n])
            THEN /\ s.result.login = BotLogin
                 /\ \E i \in 1..Len(s.chain[n].nodes) :
                        /\ s.result = s.chain[n].nodes[i]
                        /\ \A j \in 1..(i - 1) : s.chain[n].nodes[j].login # BotLogin
            ELSE /\ s.result = NoNode
                 /\ ~s.chain[n].hasNextPage

\* the bot is the second node of the second page, behind a node whose
\* login differs in case
C32_FoundOnSecondPage ==
    /\ run.search.pc = "returned"
    /\ run.search.asked = <<0, 1>>
    /\ run.search.result = [id |-> 22, login |-> BotLogin]
    /\ run.search.chain[2].nodes[1].login = "Copilot-SWE-Agent"

\* ------------------------------------------------------------------------
\* assignCopilotToIssue request by request
\* ------------------------------------------------------------------------
\* node_id of the issue the server returns to the lookup
IssueNodeId == 7

\* assignCopilotToIssue once findCopilotBot has returned or thrown, or is
\* waiting for a page; here a bot that is not found is an error
continueAssignmentStrict(a, s) ==
    CASE s.pc = "returned" /\ s.result # NoNode ->
            [a EXCEPT !.pc = "mutation",
                      !.mutations = Append(@, [assignableId |-> a.issueNodeId,
                                               actorIds |-> <<s.result.id>>])]
      [] s.pc = "returned" /\ s.result = NoNode -> [a EXCEPT !.pc = "thrown"]
      [] s.pc = "thrown" -> [a EXCEPT !.pc = "thrown", !.failed = "query"]
      [] OTHER -> a

\* assignCopilotToIssue once findCopilotBot has returned or thrown, or is
\* waiting for a page: the mutation of assignCopilotUsingGraphQL is sent
\* for the bot found, and nothing is sent when none is found
continueAssignment(a, s) ==
    CASE s.pc = "returned" /\ s.result # NoNode ->
            [a EXCEPT !.pc = "mutation",
                      !.mutations = Append(@, [assignableId |-> a.issueNodeId,
                                               actorIds |-> <<s.result.id>>])]
      [] s.pc = "returned" /\ s.result = NoNode -> [a EXCEPT !.pc = "returned"]
      [] s.pc = "thrown" -> [a EXCEPT !.pc = "thrown", !.failed = "query"]
      [] OTHER -> a

AssignStep(a, s) ==
    /\ run' = [run EXCEPT !.assign = a, !.search = s]
    /\ UNCHANGED <<appState, dom, history, historyIndex, initialized,
                   autoAdvanceTimers, promptLoads, pendingHashChange, shown,
                   lastEvent, lastEntry, events, firstEntry, catalog>>

\* assignCopilotToIssue is called: the issue is looked up
AssignCopilotToIssue ==
    /\ run.assign.pc = "idle"
    /\ AssignStep([run.assign EXCEPT !.pc = "lookup"], run.search)

\* the lookup answers with the issue: findCopilotBot is called
IssueNodeReceived ==
    /\ run.assign.pc = "lookup"
    /\ AssignStep([run.assign EXCEPT !.pc = "search", !.issueNodeId = IssueNodeId],
                  requestSuggestedActors(run.search, 0))

IssueLookupRefused ==
    /\ run.assign.pc = "lookup"
    /\ AssignStep([run.assign EXCEPT !.pc = "thrown", !.failed = "lookup"], run.search)

\* a page of suggested actors arrives
AssignPageReceived ==
    /\ run.assign.pc = "search"
    /\ LET endCursor == run.search.asked[Len(run.search.asked)]
           s == suggestedActorsReceived(run.search, run.search.chain[endCursor + 1])
       IN AssignStep(continueAssignment(run.assign, s), s)

AssignPageRefused ==
    /\ run.assign.pc = "search"
    /\ LET s == [run.search EXCEPT !.pc = "thrown"]
       IN AssignStep(continueAssignment(run.assign, s), s)

\* the mutation answers without errors
MutationAnswered ==
    /\ run.assign.pc = "mutation"
    /\ AssignStep([run.assign EXCEPT !.pc = "returned"], run.search)

\* the response to the mutation is not ok or carries errors
MutationRefused ==
    /\ run.assign.pc = "mutation"
    /\ AssignStep([run.assign EXCEPT !.pc = "thrown", !.failed = "mutation"], run.search)

NextAssign ==
    \/ AssignCopilotToIssue
    \/ IssueNodeReceived
    \/ IssueLookupRefused
    \/ AssignPageReceived
    \/ AssignPageRefused
    \/ MutationAnswered
    \/ MutationRefused

\* one call of assignCopilotToIssue for any chain of pages
SpecAssign == InitBot /\ [][NextAssign]_vars

\* C33: assignCopilotToIssue looks the issue up before it asks for any
\* page; for a bot found it sends the mutation exactly once, for the node
\* of the issue and with exactly the id of that bot as actors; when the
\* pages are exhausted without a bot it sends no mutation and returns
\* without an error; a failure of the lookup, of the query or of the
\* mutation ends the call with that error thrown.
C33_AssignsFoundBotOnce ==
    LET a == run.assign
        s == run.search
        found == s.pc = "returned" /\ s.result # NoNode
    IN /\ s.asked # <<>> => a.issueNodeId = IssueNodeId
       /\ Len(a.mutations) <= 1
       /\ found <=> Len(a.mutations) = 1
       /\ found => a.mutations[1] = [assignableId |-> a.issueNodeId,
                                     actorIds |-> <<s.result.id>>]
       /\ (s.pc = "returned" /\ s.result = NoNode) =>
                a.pc = "returned" /\ a.failed = "none"
       /\ a.pc = "returned" => s.pc = "returned" /\ a.failed = "none"
       /\ a.failed # "none" <=> a.pc = "thrown"

\* two pages were read without a bot: the call has returned and no
\* mutation was sent
C33_NoBotNoMutation ==
    /\ run.assign.pc = "returned"
    /\ run.search.asked = <<0, 1>>
    /\ run.search.result = NoNode
    /\ run.assign.mutations = <<>>

\* ------------------------------------------------------------------------
\* The delays between the targets of a run
\* ------------------------------------------------------------------------
\* C34: a run over n >= 1 targets waits exactly n - 1 times: once between
\* the end of target i and the start of target i + 1 for every i < n,
\* whether target i succeeded or failed, and not after the last target.
C34_OneDelayBetweenTargets ==
    LET n == Len(run.targetRepos)
    IN /\ run.i >= 1 => run.delays = run.i - 1
       /\ run.pc = "delay" => /\ Len(run.results) = run.i
                              /\ run.i < n
       /\ (run.pc # "delay" /\ run.i >= 1) => Len(run.results) \in {run.i - 1, run.i}
       /\ (run.pc = "done" /\ n >= 1) => /\ Len(run.results) = n
                                         /\ run.delays = n - 1

\* three targets, the first failed, the second succeeded: two delays
C34_TwoDelaysForThreeTargets ==
    /\ run.pc = "done"
    /\ Len(run.targetRepos) = 3
    /\ run.delays = 2
    /\ ~run.results[1].success
    /\ run.results[2].success


\* ---------------------------------------------------------------------
\* The cache of the remote search: PerformanceUtils.cache outlives the
\* stage, so a visit to stage 3 can find entries of an earlier visit made
\* for another organization

OtherOrgName == <<"c">>

CachedTerm == <<"r", "1">>

\* what an earlier visit can have left in the cache
EarlierCaches ==
    { {},
      {[key |-> <<OtherOrgName, CachedTerm>>, data |-> <<Repository(8)>>,
        fresh |-> TRUE]} }

CacheSearchInputs == { <<"R", "1">>, <<" ", "d", "o", "c", "s">> }

InitCache ==
    \E cache \in EarlierCaches :
     \E authToken \in {<<>>, TokenOfLength(TokenMinLength)} :
        LET app == [NewAppState EXCEPT !.currentStep = 3,
                                       !.selectedUseCase = "tests",
                                       !.orgName = <<"a", "-", "b">>,
                                       !.authToken = authToken]
        IN /\ appState = app
           /\ dom = [NewDom EXCEPT !.orgNameInput = app.orgName,
                                   !.authTokenInput = authToken]
           /\ history = <<[state |-> [step |-> 3, appState |-> app], hash |-> 3]>>
           /\ historyIndex = 1
           /\ initialized = TRUE
           /\ autoAdvanceTimers = 0
           /\ promptLoads = <<>>
           /\ pendingHashChange = 0
           /\ shown = <<>>
           /\ lastEvent = Event("none", 0, TRUE)
           /\ lastEntry = [step |-> 3, allowed |-> canNavigateToStep(app, 3)]
           /\ events = 0
           /\ run = NoRun
           /\ firstEntry = NoEntries
           /\ catalog = [NewCatalog EXCEPT !.cache = cache]

NextCache ==
    \/ \E value \in CacheSearchInputs : FilterRepos(value)
    \/ \E i \in 1..MaxSearches, items \in SearchResponses : SearchArrived(i, items)
    \/ \E i \in 1..MaxSearches, failure \in RequestFailures : SearchRequestFailed(i, failure)
    \/ CacheExpired

SpecCache == InitCache /\ [][NextCache]_vars

\* the entries getCached would return for a search of the term now
FreshEntries(term) ==
    {e \in catalog.cache : e.key = <<appState.orgName, term>> /\ e.fresh}

\* C35: a search whose (organization, term) has an entry younger than the
\* time to live issues no request and shows the results that entry holds;
\* with another organization, another term or an expired entry it issues a
\* request; and a search that completes successfully leaves its results
\* under its key
C35_SearchCachedByOrganizationAndTerm ==
    /\ [][(/\ IsFilterReposCall
           /\ catalog'.last.remote \in {"cache", "asked", "failed"})
          => LET term == catalog'.reposPagination.searchTerm
                 localMatches == catalog'.last.localMatches
             IN IF FreshEntries(term) # {}
                THEN /\ catalog'.searches = catalog.searches
                     /\ catalog'.last.remote = "cache"
                     /\ \A e \in FreshEntries(term) :
                          /\ catalog'.last.apiMatches = e.data
                          /\ catalog'.reposPagination.filtered
                               = combine(localMatches, e.data)
                ELSE hasToken(appState)
                       => /\ catalog'.last.remote = "asked"
                          /\ Len(catalog'.searches) = Len(catalog.searches) + 1
                          /\ catalog'.searches[Len(catalog'.searches)].cacheKey
                               = <<appState.orgName, term>>
       ]_vars
    /\ [][\A i \in 1..Len(catalog.searches) :
            (/\ catalog'.searches = RemoveAt(catalog.searches, i)
             /\ catalog'.last.op = "filterRepos"
             /\ catalog'.last.remote = "request")
            => \E e \in catalog'.cache :
                 /\ e.key = catalog.searches[i].cacheKey
                 /\ e.fresh
                 /\ e.data = catalog'.last.apiMatches
       ]_vars
    /\ [](\A e, f \in catalog.cache : e.key = f.key => e = f)

\* the term was searched, answered with three results, and searched again:
\* the second search was answered from the cache, which also holds what an
\* earlier visit found under the same term for another organization
C35_SecondSearchFromCache ==
    /\ catalog.last.op = "filterRepos"
    /\ catalog.last.remote = "cache"
    /\ Len(catalog.last.apiMatches) = 3
    /\ catalog.searches = <<>>
    /\ \E e \in catalog.cache : e.key[1] = OtherOrgName /\ e.fresh

\* C36: whenever no remote search is in flight, the list a filterRepos
\* call has left is the one computed for the current search term: every
\* repository when the term is empty, else the local matches of that term
\* followed by what the remote search of that term added
C36_FilteredListIsForCurrentTerm ==
    (/\ catalog.searches = <<>>
     /\ catalog.last.op = "filterRepos")
    => LET term == catalog.reposPagination.searchTerm
           filtered == catalog.reposPagination.filtered
           localMatches == localMatchesOf(catalog.allRepos, term)
       IN IF term = <<>>
          THEN filtered = catalog.allRepos
          ELSE /\ catalog.last.localMatches = localMatches
               /\ Len(filtered) >= Len(localMatches)
               /\ SubSeq(filtered, 1, Len(localMatches)) = localMatches

\* the search box was emptied while the search of an earlier term was in
\* flight; its response arrived last and replaced the unfiltered list
C36_OutdatedResultShown ==
    /\ catalog.searches = <<>>
    /\ catalog.last.op = "filterRepos"
    /\ catalog.last.remote = "request"
    /\ catalog.reposPagination.searchTerm = <<>>
    /\ catalog.reposPagination.filtered # catalog.allRepos

\* ------------------------------------------------------------------------
\* The automatic advance after other navigation
\* ------------------------------------------------------------------------
\* C37: the firing of a scheduled automatic advance that finds the wizard
\* no longer on stage 1 leaves currentStep as it is and pushes no history
\* entry
C37_AdvanceOnlyFromStageOne ==
    [][(/\ lastEvent'.kind = "autoAdvance"
        /\ autoAdvanceTimers' = autoAdvanceTimers - 1
        /\ appState.currentStep # 1)
       => /\ appState'.currentStep = appState.currentStep
          /\ history' = history
          /\ historyIndex' = historyIndex
      ]_vars

\* the automatic advance fired on stage 3: the wizard is back on stage 2
\* and the entry of stage 3 is followed by a new entry for stage 2
C37_PulledBackFromStageThree ==
    /\ lastEvent.kind = "autoAdvance"
    /\ appState.currentStep = 2
    /\ historyIndex > 1
    /\ history[historyIndex].state.step = 2
    /\ history[historyIndex - 1].state.step = 3

\* ------------------------------------------------------------------------
\* Execute triggers during a run
\* ------------------------------------------------------------------------
\* every way the invocation of w.run can resume from the await it is
\* suspended at: the awaited request is answered or fails, or the
\* rate-limit delay is over
Resumptions(w) ==
    LET r == w.run
        a == Response(w)
    IN CASE r.pc = "resolving" ->
              {processRepositories(a, repos) : repos \in TargetLists}
              \cup {workflowFailed([a EXCEPT !.run.listingStatus = status],
                        Error("Failed to fetch organization repositories: "
                              \o httpMessage(status))) : status \in IssueFailures}
         [] r.pc = "createIssue" ->
              {assignCopilotToIssue(
                  [a EXCEPT !.run.issues = r.issues + 1,
                            !.run.issue = [number |-> r.issues + 1,
                                           repo |-> r.targetRepos[r.i]]])}
              \cup {targetFailed(a, APIError(httpMessage(status), status)) :
                        status \in IssueFailures}
         [] r.pc = "getIssue" ->
              {findCopilotBot(a), assignmentFailed(a, "lookupFailed")}
         [] r.pc = "suggestedActors" ->
              {assignCopilotUsingGraphQL(a), targetSucceeded(a, "notFound"),
               assignmentFailed(a, "queryFailed")}
              \cup (IF r.page < MaxPages THEN {findCopilotBot(a)} ELSE {})
         [] r.pc = "assign" ->
              {targetSucceeded(a, "assigned"), assignmentFailed(a, "mutationFailed")}
         [] r.pc = "delay" ->
              {processTarget([w EXCEPT !.run.delays = @ + 1], r.i + 1)}
         [] OTHER -> {}

\* a click on the execute button while the invocation of an earlier click
\* is suspended: the listener calls executeWorkflow again
ExecuteWorkflowDuringRun ==
    /\ initialized
    /\ appState.currentStep = 4
    /\ run.pc \notin {"idle", "done"}
    /\ Len(run.earlier) < MaxRuns - 1
    /\ LET w == executeWorkflow(RunWorld)
       IN CommitRun([w EXCEPT !.run.earlier =
                        Append(run.earlier, [run EXCEPT !.earlier = <<>>])])

\* the most recent invocation resumes
RunResumes ==
    \E w \in Resumptions(RunWorld) : CommitRun(w)

\* the invocation started k-th resumes
EarlierRunResumes(k) ==
    /\ k \in 1..Len(run.earlier)
    /\ \E w \in Resumptions([RunWorld EXCEPT !.run = run.earlier[k]]) :
         CommitRun([w EXCEPT !.run = [run EXCEPT !.earlier[k] = w.run]])

\* a session on stage 4 whose run passes the preconditions, with one or
\* two repositories selected
InitOverlap ==
    /\ InitRun
    /\ appState.selectedUseCase = "tests"
    /\ appState.orgName # <<>>
    /\ appState.authToken # <<>>
    /\ appState.selectionMethod = "selected"
    /\ Len(appState.selectedRepos) \in {1, 2}
    /\ trim(dom.promptContentTextarea) # <<>>

NextOverlap ==
    \/ ExecuteWorkflow /\ run.earlier = <<>>
    \/ ExecuteWorkflowDuringRun
    \/ RunResumes
    \/ \E k \in 1..(MaxRuns - 1) : EarlierRunResumes(k)

SpecOverlap == InitOverlap /\ [][NextOverlap]_vars

\* the invocations of executeWorkflow, in the order they started
Invocations == Append(run.earlier, run)

InProgress(r) == r.pc \notin {"idle", "done"}

\* the issues the server created in repository repo, over all invocations
IssuesCreatedIn(repo) ==
    {<<k, j>> \in (1..Len(Invocations)) \X (1..MaxTargets) :
        /\ j <= Len(Invocations[k].assignment)
        /\ Invocations[k].assignment[j].created.repo = repo}

\* C38: at most one invocation of executeWorkflow is in progress at any
\* time, and no repository receives two issues from invocations that
\* overlap
C38_AtMostOneRunInProgress ==
    /\ Cardinality({k \in 1..Len(Invocations) : InProgress(Invocations[k])}) <= 1
    /\ run.earlier # <<>>
         => \A repo \in {RepoName(n) : n \in 1..MaxTargets} :
              Cardinality(IssuesCreatedIn(repo)) <= 1

\* two invocations, started one during the other, have both ended, and
\* each created an issue in the first repository
C38_TwoIssuesInOneRepository ==
    /\ Len(run.earlier) = 1
    /\ run.pc = "done"
    /\ run.earlier[1].pc = "done"
    /\ Cardinality(IssuesCreatedIn(RepoName(1))) = 2

\* ------------------------------------------------------------------------
\* Session changes during a run
\* ------------------------------------------------------------------------
\* the history a walk 1 -> 2 -> 3 -> 4 leaves: the entry of each stage
\* holds the session as it was when the stage was entered, the use case
\* chosen on stage 1, organization and token typed on stage 2, the
\* repositories selected on stage 3
WalkHistory(app) ==
    LET entry(step, session) ==
            [state |-> [step |-> step,
                        appState |-> [session EXCEPT !.currentStep = step]],
             hash |-> step]
        chosen == [NewAppState EXCEPT !.selectedUseCase = app.selectedUseCase]
        typed == [chosen EXCEPT !.orgName = app.orgName,
                                !.authToken = app.authToken]
        selected == [typed EXCEPT !.selectionMethod = app.selectionMethod,
                                  !.selectedRepos = app.selectedRepos]
    IN <<entry(1, NewAppState), entry(2, chosen), entry(3, typed),
         entry(4, selected)>>

\* a session on stage 4 after that walk, whose run passes the
\* preconditions, two repositories selected, and the prompt document either
\* loaded or still awaited while the textarea holds what the user typed
InitRunHistory ==
    \E loaded \in BOOLEAN :
        LET prompt == IF loaded THEN PromptDocument("tests") ELSE <<>>
            app == [NewAppState EXCEPT !.currentStep = 4,
                                       !.selectedUseCase = "tests",
                                       !.orgName = <<"a", "-", "b">>,
                                       !.authToken = TokenOfLength(TokenMinLength),
                                       !.selectionMethod = "selected",
                                       !.selectedRepos = TargetList(2),
                                       !.promptContent = prompt]
        IN /\ appState = app
           /\ dom = [orgNameInput |-> app.orgName, authTokenInput |-> app.authToken,
                     selectionDropdown |-> "selected",
                     promptContentTextarea |-> IF loaded THEN prompt ELSE <<"p">>]
           /\ history = WalkHistory(app)
           /\ historyIndex = 4
           /\ initialized = TRUE
           /\ autoAdvanceTimers = 0
           /\ promptLoads = IF loaded THEN <<>> ELSE <<"tests">>
           /\ pendingHashChange = 0
           /\ shown = <<>>
           /\ lastEvent = Event("none", 0, TRUE)
           /\ lastEntry = [step |-> 4, allowed |-> canNavigateToStep(app, 4)]
           /\ events = 0
           /\ run = NoRun
           /\ firstEntry = NoEntries
           /\ catalog = NewCatalog

NextRunHistory ==
    \/ ExecuteWorkflow
    \/ RunResumes
    \/ \E delta \in -MaxHistory..MaxHistory : HistoryGo(delta)
    \/ \E k \in 1..MaxPromptLoads, ok \in BOOLEAN : PromptLoaded(k, ok)

\* one run and the history pops and prompt responses that arrive during it;
\* the hashchange event a pop queues finds the stage already entered and is
\* followed in Spec
SpecRunHistory == InitRunHistory /\ [][NextRunHistory]_vars

\* C39: every request of a run is built from the organization and the token
\* the run started with, and every issue creation of it from the use case
\* and the prompt it started with
C39_RunUsesTheSessionItStartedWith ==
    \A k \in 1..Len(run.netLog) :
        /\ run.netLog[k].orgName = run.netLog[1].orgName
        /\ run.netLog[k].authToken = run.netLog[1].authToken
        /\ run.netLog[k].kind = "createIssue"
             => /\ run.netLog[k].selectedUseCase = run.netLog[1].selectedUseCase
                /\ run.netLog[k].promptContent = run.netLog[1].promptContent

\* the session was popped back to the entry of stage 2 while the run
\* awaited the response of its first issue creation: the lookup of the
\* created issue was sent with no organization and no token
C39_LookupWithoutOrganization ==
    /\ lastEvent.kind = "popState"
    /\ Len(run.netLog) = 2
    /\ run.netLog[1].kind = "createIssue"
    /\ run.netLog[1].orgName = <<"a", "-", "b">>
    /\ run.netLog[2].kind = "getIssue"
    /\ run.netLog[2].orgName = <<>>
    /\ run.netLog[2].authToken = <<>>
====
